---- MODULE Spec2Model ----
(***************************************************************************)
(* Model of package sqltee (src/sqltee.go): the proxies that wrap a        *)
(* database/sql/driver backend, forward every call to it and hand one      *)
(* record per timed call to a Logger.                                      *)
(*                                                                         *)
(* A proxy method is a pure operator here: given the receiving wrapper,    *)
(* the caller's arguments and the answer `b` the backend gives to the one  *)
(* backend method the handler may invoke, it yields what the caller gets   *)
(* back (ret, err), the Logger calls made (log, in order) and the backend  *)
(* calls made (calls, in order).  The actions apply these operators to the *)
(* wrappers the caller holds.  Durations (Timer) are not modelled.         *)
(***************************************************************************)
EXTENDS Integers, Sequences, FiniteSets, TLC

\* ---------------------------------------------------------------- bounds
\* Longest parameter list of a call.
MaxArgs == 2
\* Most rows a backend result set holds.
MaxRows == 2

\* ---------------------------------------------------------------- errors
Nil == "nil"
ErrSkip == "driver.ErrSkip"
ErrNamedParameters == "sql: driver does not support the use of Named Parameters"
ErrBackend == "backend: failure"
EOF == "io.EOF"
\* What a backend method may answer instead of succeeding.
BackendErrs == {ErrBackend, ErrSkip}

\* -------------------------------------------------------------- contexts
NoCtx == "nil"
Contexts == {"background", "canceled", "deadline"}
\* Mutant of Done: the select has lost its ctx.Done() case.
DoneNever(ctx) == FALSE

\* <-ctx.Done() can proceed
Done(ctx) == ctx \in {"canceled", "deadline"}
\* ctx.Err()
CtxErr(ctx) ==
    IF ctx = "canceled" THEN "context.Canceled"
    ELSE IF ctx = "deadline" THEN "context.DeadlineExceeded"
    ELSE Nil

\* ---------------------------------------------------------------- inputs
Queries == {"SELECT|a=?", "INSERT|b=?"}
Names == {"", "id"}
Values == {7, 8}
NoOpts == "nil"
TxOptions == {"default", "read-only"}
Loggers == {"loggerA", "loggerB"}
DataSourceNames == {"db"}

\* driver.NamedValue; Ordinal is the 1-based position in the call
NamedValue(name, ordinal, value) ==
    [Name |-> name, Ordinal |-> ordinal, Value |-> value]
\* every []driver.NamedValue of at most MaxArgs parameters
NamedValueLists ==
    UNION {
        {[i \in 1..n |-> NamedValue(ns[i], i, vs[i])] :
            ns \in [1..n -> Names], vs \in [1..n -> Values]}
        : n \in 0..MaxArgs}
\* every []driver.Value of at most MaxArgs parameters
ValueLists == UNION {[1..n -> Values] : n \in 0..MaxArgs}

\* -------------------------------------------------------- backend objects
\* The optional interfaces a backend connection / statement may implement.
PlainCaps == {"Execer", "Queryer"}
ContextCaps ==
    {"ConnBeginTx", "ConnPrepareContext", "ExecerContext", "QueryerContext",
     "Pinger", "SessionResetter"}
ConnCaps == PlainCaps \cup ContextCaps
\* Every handler probes at most one plain and one context capability; these
\* four sets realise every outcome of every such pair of probes.
ConnCapSets == {{}, PlainCaps, ContextCaps, ConnCaps}
StmtCapSets == SUBSET {"StmtExecContext", "StmtQueryContext"}

\* A backend object: its kind, the optional interfaces it implements, and
\* n: which result / transaction it is, or how many rows are left to read.
Backend(kind, caps, n) == [kind |-> kind, caps |-> caps, n |-> n]
NoB == Backend("nil", {}, 0)
BackendConns == {Backend("conn", caps, 0) : caps \in ConnCapSets}
BackendStmts == {Backend("stmt", caps, 0) : caps \in StmtCapSets}
BackendResults == {Backend("result", {}, n) : n \in {1, 2}}
BackendTxs == {Backend("tx", {}, n) : n \in {1, 2}}
BackendRows == {Backend("rows", {}, n) : n \in 0..MaxRows}

\* The answers of a backend method that returns (object, error): one of
\* `vals` with no error, or no object and an error.
Responses(vals) ==
    {[val |-> v, err |-> Nil] : v \in vals}
        \cup {[val |-> NoB, err |-> e] : e \in BackendErrs}
\* The answers of a backend method that returns only an error.
ErrResponses == {[val |-> NoB, err |-> e] : e \in {Nil} \cup BackendErrs}

\* ------------------------------------------------------- proxy wrappers
\* connection, statement, result, rowsIterator, transaction: the embedded
\* Logger, the stored ctx and query (zero value where the struct literal
\* sets none) and the backend object held.
Wrapper(kind, logger, ctx, query, inner) ==
    [kind |-> kind, Logger |-> logger, ctx |-> ctx, query |-> query,
     inner |-> inner]
NoObj == Wrapper("nil", "", NoCtx, "", NoB)

\* One Logger call: the Logger it went to, the method (by its operation
\* name) and the arguments passed; `after` is the number of backend calls
\* that the operation had made when it made this Logger call.
Rec(logger, name, ctx, query, nvdargs, dargs, opts, res, err) ==
    [Logger |-> logger, op |-> name, ctx |-> ctx, query |-> query,
     nvdargs |-> nvdargs, dargs |-> dargs, opts |-> opts, res |-> res,
     err |-> err, after |-> 0]

\* One backend call: the object called, the method, the arguments passed
\* and the backend's answer.
Call(inner, method, ctx, query, nvdargs, dargs, opts, b) ==
    [obj |-> inner, method |-> method, ctx |-> ctx, query |-> query,
     nvdargs |-> nvdargs, dargs |-> dargs, opts |-> opts,
     val |-> b.val, err |-> b.err]

\* What one proxy method does. Every method makes its Logger call in a
\* deferred function or in the statement after its backend call, and a
\* method that delegates makes no backend call of its own: the Logger
\* calls of an operation come after its backend calls.
Out(ret, err, log, calls) ==
    [ret |-> ret, err |-> err,
     log |-> [i \in 1..Len(log) |-> [log[i] EXCEPT !.after = Len(calls)]],
     calls |-> calls]

\* ----------------------------------------------------- namedValueToValue
\* Mutant: the values are stored from the far end of dargs.
namedValueToValueReversed(named) ==
    IF \E n \in 1..Len(named) : Len(named[n].Name) > 0
    THEN [dargs |-> <<>>, err |-> ErrNamedParameters]
    ELSE [dargs |-> [n \in 1..Len(named) |-> named[Len(named) + 1 - n].Value],
          err |-> Nil]

\* Mutant: only the first parameter's name is looked at.
namedValueToValueFirstOnly(named) ==
    IF Len(named) > 0 /\ Len(named[1].Name) > 0
    THEN [dargs |-> <<>>, err |-> ErrNamedParameters]
    ELSE [dargs |-> [n \in 1..Len(named) |-> named[n].Value], err |-> Nil]

namedValueToValue(named) ==
    IF \E n \in 1..Len(named) : Len(named[n].Name) > 0
    THEN [dargs |-> <<>>, err |-> ErrNamedParameters]
    ELSE [dargs |-> [n \in 1..Len(named) |-> named[n].Value], err |-> Nil]

\* ---------------------------------------------------------------- Driver
DriverOpen(d, name, b) ==
    LET call == Call(d.inner, "Driver.Open", NoCtx, name, <<>>, <<>>, NoOpts, b)
        rec == Rec(d.Logger, "driver-open", NoCtx, "", <<>>, <<>>, NoOpts, NoB, b.err)
    IN  IF b.err # Nil
        THEN Out(NoObj, b.err, <<rec>>, <<call>>)
        ELSE Out(Wrapper("connection", d.Logger, NoCtx, "", b.val), Nil,
                 <<rec>>, <<call>>)

\* ------------------------------------------------------------ connection
ConnectionPrepare(c, query, b) ==
    LET call == Call(c.inner, "Prepare", NoCtx, query, <<>>, <<>>, NoOpts, b)
        rec == Rec(c.Logger, "conn-prepare", NoCtx, query, <<>>, <<>>, NoOpts,
                   NoB, b.err)
    IN  IF b.err # Nil
        THEN Out(NoObj, b.err, <<rec>>, <<call>>)
        ELSE Out(Wrapper("statement", c.Logger, NoCtx, query, b.val), Nil,
                 <<rec>>, <<call>>)

ConnectionClose(c, b) ==
    Out(NoObj, b.err,
        <<Rec(c.Logger, "conn-close", NoCtx, "", <<>>, <<>>, NoOpts, NoB, b.err)>>,
        <<Call(c.inner, "Close", NoCtx, "", <<>>, <<>>, NoOpts, b)>>)

ConnectionBegin(c, b) ==
    LET call == Call(c.inner, "Begin", NoCtx, "", <<>>, <<>>, NoOpts, b)
        rec == Rec(c.Logger, "conn-begin", NoCtx, "", <<>>, <<>>, NoOpts, NoB,
                   b.err)
    IN  IF b.err # Nil
        THEN Out(NoObj, b.err, <<rec>>, <<call>>)
        ELSE Out(Wrapper("transaction", c.Logger, NoCtx, "", b.val), Nil,
                 <<rec>>, <<call>>)

\* Mutant: the degrade path goes through the proxy's own Begin, which logs.
ConnectionBeginTxDelegates(c, ctx, opts, b) ==
    LET rec == Rec(c.Logger, "conn-begin-tx", ctx, "", <<>>, <<>>, opts, NoB,
                   b.err)
    IN  IF "ConnBeginTx" \in c.inner.caps
        THEN LET call == Call(c.inner, "BeginTx", ctx, "", <<>>, <<>>, opts, b)
             IN  IF b.err # Nil
                 THEN Out(NoObj, b.err, <<rec>>, <<call>>)
                 ELSE Out(Wrapper("transaction", c.Logger, ctx, "", b.val),
                          Nil, <<rec>>, <<call>>)
        ELSE LET plain == ConnectionBegin(c, b)
             IN  Out(plain.ret, plain.err, plain.log \o <<rec>>, plain.calls)

\* Mutant: a missing ConnBeginTx is answered like a missing Execer.
ConnectionBeginTxSkips(c, ctx, opts, b) ==
    LET rec == Rec(c.Logger, "conn-begin-tx", ctx, "", <<>>, <<>>, opts, NoB,
                   b.err)
    IN  IF "ConnBeginTx" \in c.inner.caps
        THEN LET call == Call(c.inner, "BeginTx", ctx, "", <<>>, <<>>, opts, b)
             IN  IF b.err # Nil
                 THEN Out(NoObj, b.err, <<rec>>, <<call>>)
                 ELSE Out(Wrapper("transaction", c.Logger, ctx, "", b.val),
                          Nil, <<rec>>, <<call>>)
        ELSE Out(NoObj, ErrSkip,
                 <<Rec(c.Logger, "conn-begin-tx", ctx, "", <<>>, <<>>, opts,
                       NoB, Nil)>>,
                 <<>>)

ConnectionBeginTx(c, ctx, opts, b) ==
    LET call == IF "ConnBeginTx" \in c.inner.caps
                THEN Call(c.inner, "BeginTx", ctx, "", <<>>, <<>>, opts, b)
                ELSE Call(c.inner, "Begin", NoCtx, "", <<>>, <<>>, NoOpts, b)
        rec == Rec(c.Logger, "conn-begin-tx", ctx, "", <<>>, <<>>, opts, NoB,
                   b.err)
    IN  IF b.err # Nil
        THEN Out(NoObj, b.err, <<rec>>, <<call>>)
        ELSE Out(Wrapper("transaction", c.Logger, ctx, "", b.val), Nil,
                 <<rec>>, <<call>>)

\* Mutant: the context record is made before Prepare is called.
ConnectionPrepareContextLogsFirst(c, ctx, query, b) ==
    IF "ConnPrepareContext" \in c.inner.caps
    THEN LET call == Call(c.inner, "PrepareContext", ctx, query, <<>>, <<>>,
                          NoOpts, b)
             rec == Rec(c.Logger, "conn-prepare-context", ctx, query, <<>>,
                        <<>>, NoOpts, NoB, b.err)
         IN  IF b.err # Nil
             THEN Out(NoObj, b.err, <<rec>>, <<call>>)
             ELSE Out(Wrapper("statement", c.Logger, ctx, "", b.val), Nil,
                      <<rec>>, <<call>>)
    ELSE LET plain == ConnectionPrepare(c, query, b)
             rec == Rec(c.Logger, "conn-prepare-context", ctx, query, <<>>,
                        <<>>, NoOpts, NoB, Nil)
         IN  [ret |-> plain.ret, err |-> plain.err,
              log |-> <<rec>> \o plain.log, calls |-> plain.calls]

ConnectionPrepareContext(c, ctx, query, b) ==
    IF "ConnPrepareContext" \in c.inner.caps
    THEN LET call == Call(c.inner, "PrepareContext", ctx, query, <<>>, <<>>,
                          NoOpts, b)
             rec == Rec(c.Logger, "conn-prepare-context", ctx, query, <<>>,
                        <<>>, NoOpts, NoB, b.err)
         IN  IF b.err # Nil
             THEN Out(NoObj, b.err, <<rec>>, <<call>>)
             \* the struct literal sets no query
             ELSE Out(Wrapper("statement", c.Logger, ctx, "", b.val), Nil,
                      <<rec>>, <<call>>)
    \* return c.Prepare(query): the local err is never assigned
    ELSE LET plain == ConnectionPrepare(c, query, b)
             rec == Rec(c.Logger, "conn-prepare-context", ctx, query, <<>>,
                        <<>>, NoOpts, NoB, Nil)
         IN  Out(plain.ret, plain.err, plain.log \o <<rec>>, plain.calls)

ConnectionExec(c, query, dargs, b) ==
    IF "Execer" \in c.inner.caps
    THEN LET call == Call(c.inner, "Exec", NoCtx, query, <<>>, dargs, NoOpts, b)
             rec == Rec(c.Logger, "conn-exec", NoCtx, query, <<>>, dargs,
                        NoOpts, b.val, b.err)
         IN  IF b.err # Nil
             THEN Out(NoObj, b.err, <<rec>>, <<call>>)
             ELSE Out(Wrapper("result", c.Logger, NoCtx, "", b.val), Nil,
                      <<rec>>, <<call>>)
    \* return nil, driver.ErrSkip: the local err is never assigned
    ELSE Out(NoObj, ErrSkip,
             <<Rec(c.Logger, "conn-exec", NoCtx, query, <<>>, dargs, NoOpts,
                   NoB, Nil)>>,
             <<>>)

ConnectionExecContext(c, ctx, query, nvdargs, b) ==
    IF "ExecerContext" \in c.inner.caps
    THEN LET call == Call(c.inner, "ExecContext", ctx, query, nvdargs, <<>>,
                          NoOpts, b)
             rec == Rec(c.Logger, "conn-exec-context", ctx, query, nvdargs,
                        <<>>, NoOpts, b.val, b.err)
         IN  IF b.err # Nil
             THEN Out(NoObj, b.err, <<rec>>, <<call>>)
             ELSE Out(Wrapper("result", c.Logger, ctx, "", b.val), Nil,
                      <<rec>>, <<call>>)
    ELSE LET conv == namedValueToValue(nvdargs)
             \* the deferred Logger call reads the locals res and err, which
             \* only namedValueToValue has assigned on the paths below
             rec == Rec(c.Logger, "conn-exec-context", ctx, query, nvdargs,
                        <<>>, NoOpts, NoB, conv.err)
         IN  IF conv.err # Nil
             THEN Out(NoObj, conv.err, <<rec>>, <<>>)
             ELSE IF Done(ctx)
             THEN Out(NoObj, CtxErr(ctx), <<rec>>, <<>>)
             ELSE LET plain == ConnectionExec(c, query, conv.dargs, b)
                  IN  Out(plain.ret, plain.err, plain.log \o <<rec>>,
                          plain.calls)

\* Mutant: the backend's Ping error is logged and not returned.
ConnectionPingSwallows(c, ctx, b) ==
    IF "Pinger" \in c.inner.caps
    THEN Out(NoObj, Nil,
             <<Rec(c.Logger, "conn-ping", NoCtx, "", <<>>, <<>>, NoOpts, NoB,
                   b.err)>>,
             <<Call(c.inner, "Ping", ctx, "", <<>>, <<>>, NoOpts, b)>>)
    ELSE Out(NoObj, Nil,
             <<Rec(c.Logger, "conn-ping", NoCtx, "", <<>>, <<>>, NoOpts, NoB,
                   Nil)>>,
             <<>>)

\* Mutant: the backend is pinged with a fresh background context.
ConnectionPingBackground(c, ctx, b) ==
    IF "Pinger" \in c.inner.caps
    THEN Out(NoObj, b.err,
             <<Rec(c.Logger, "conn-ping", NoCtx, "", <<>>, <<>>, NoOpts, NoB,
                   b.err)>>,
             <<Call(c.inner, "Ping", "background", "", <<>>, <<>>, NoOpts, b)>>)
    ELSE Out(NoObj, Nil,
             <<Rec(c.Logger, "conn-ping", NoCtx, "", <<>>, <<>>, NoOpts, NoB,
                   Nil)>>,
             <<>>)

\* Mutant: a backend that cannot be pinged is not reported to the Logger.
ConnectionPingUnreported(c, ctx, b) ==
    IF "Pinger" \in c.inner.caps
    THEN Out(NoObj, b.err,
             <<Rec(c.Logger, "conn-ping", NoCtx, "", <<>>, <<>>, NoOpts, NoB,
                   b.err)>>,
             <<Call(c.inner, "Ping", ctx, "", <<>>, <<>>, NoOpts, b)>>)
    ELSE Out(NoObj, Nil, <<>>, <<>>)

ConnectionPing(c, ctx, b) ==
    IF "Pinger" \in c.inner.caps
    THEN Out(NoObj, b.err,
             <<Rec(c.Logger, "conn-ping", NoCtx, "", <<>>, <<>>, NoOpts, NoB,
                   b.err)>>,
             <<Call(c.inner, "Ping", ctx, "", <<>>, <<>>, NoOpts, b)>>)
    ELSE Out(NoObj, Nil,
             <<Rec(c.Logger, "conn-ping", NoCtx, "", <<>>, <<>>, NoOpts, NoB,
                   Nil)>>,
             <<>>)

ConnectionQuery(c, query, dargs, b) ==
    IF "Queryer" \in c.inner.caps
    THEN LET call == Call(c.inner, "Query", NoCtx, query, <<>>, dargs, NoOpts, b)
             rec == Rec(c.Logger, "conn-query", NoCtx, query, <<>>, dargs,
                        NoOpts, NoB, b.err)
         IN  IF b.err # Nil
             THEN Out(NoObj, b.err, <<rec>>, <<call>>)
             ELSE Out(Wrapper("rowsIterator", c.Logger, NoCtx, "", b.val), Nil,
                      <<rec>>, <<call>>)
    \* return nil, driver.ErrSkip: the local err is never assigned
    ELSE Out(NoObj, ErrSkip,
             <<Rec(c.Logger, "conn-query", NoCtx, query, <<>>, dargs, NoOpts,
                   NoB, Nil)>>,
             <<>>)

\* Mutant: the cancellation check is made before the parameters are
\* converted.
ConnectionQueryContextChecksFirst(c, ctx, query, nvdargs, b) ==
    IF "QueryerContext" \in c.inner.caps
    THEN LET call == Call(c.inner, "QueryContext", ctx, query, nvdargs, <<>>,
                          NoOpts, b)
             rec == Rec(c.Logger, "conn-query-context", ctx, query, nvdargs,
                        <<>>, NoOpts, NoB, b.err)
         IN  IF b.err # Nil
             THEN Out(NoObj, b.err, <<rec>>, <<call>>)
             ELSE Out(Wrapper("rowsIterator", c.Logger, ctx, "", b.val), Nil,
                      <<rec>>, <<call>>)
    ELSE LET conv == namedValueToValue(nvdargs)
             rec == Rec(c.Logger, "conn-query-context", ctx, query, nvdargs,
                        <<>>, NoOpts, NoB, conv.err)
         IN  IF Done(ctx)
             THEN Out(NoObj, CtxErr(ctx), <<rec>>, <<>>)
             ELSE IF conv.err # Nil
             THEN Out(NoObj, conv.err, <<rec>>, <<>>)
             ELSE LET plain == ConnectionQuery(c, query, conv.dargs, b)
                  IN  Out(plain.ret, plain.err, plain.log \o <<rec>>,
                          plain.calls)

ConnectionQueryContext(c, ctx, query, nvdargs, b) ==
    IF "QueryerContext" \in c.inner.caps
    THEN LET call == Call(c.inner, "QueryContext", ctx, query, nvdargs, <<>>,
                          NoOpts, b)
             rec == Rec(c.Logger, "conn-query-context", ctx, query, nvdargs,
                        <<>>, NoOpts, NoB, b.err)
         IN  IF b.err # Nil
             THEN Out(NoObj, b.err, <<rec>>, <<call>>)
             ELSE Out(Wrapper("rowsIterator", c.Logger, ctx, "", b.val), Nil,
                      <<rec>>, <<call>>)
    ELSE LET conv == namedValueToValue(nvdargs)
             rec == Rec(c.Logger, "conn-query-context", ctx, query, nvdargs,
                        <<>>, NoOpts, NoB, conv.err)
         IN  IF conv.err # Nil
             THEN Out(NoObj, conv.err, <<rec>>, <<>>)
             ELSE IF Done(ctx)
             THEN Out(NoObj, CtxErr(ctx), <<rec>>, <<>>)
             ELSE LET plain == ConnectionQuery(c, query, conv.dargs, b)
                  IN  Out(plain.ret, plain.err, plain.log \o <<rec>>,
                          plain.calls)

\* Mutant: a backend without session reset is reported as reset.
ConnectionResetSessionSwallows(c, ctx, b) ==
    IF "SessionResetter" \in c.inner.caps
    THEN Out(NoObj, b.err, <<>>,
             <<Call(c.inner, "ResetSession", ctx, "", <<>>, <<>>, NoOpts, b)>>)
    ELSE Out(NoObj, Nil, <<>>, <<>>)

\* not timed: no Logger call
ConnectionResetSession(c, ctx, b) ==
    IF "SessionResetter" \in c.inner.caps
    THEN Out(NoObj, b.err, <<>>,
             <<Call(c.inner, "ResetSession", ctx, "", <<>>, <<>>, NoOpts, b)>>)
    ELSE Out(NoObj, ErrSkip, <<>>, <<>>)

\* ------------------------------------------------------------- statement
\* Mutant: closing a statement is not timed.
StatementCloseSilent(s, b) ==
    Out(NoObj, b.err, <<>>,
        <<Call(s.inner, "Close", NoCtx, "", <<>>, <<>>, NoOpts, b)>>)

StatementClose(s, b) ==
    Out(NoObj, b.err,
        <<Rec(s.Logger, "stmt-close", NoCtx, "", <<>>, <<>>, NoOpts, NoB, b.err)>>,
        <<Call(s.inner, "Close", NoCtx, "", <<>>, <<>>, NoOpts, b)>>)

StatementExec(s, dargs, b) ==
    LET call == Call(s.inner, "Exec", NoCtx, "", <<>>, dargs, NoOpts, b)
        rec == Rec(s.Logger, "stmt-exec", NoCtx, s.query, <<>>, dargs, NoOpts,
                   b.val, b.err)
    IN  IF b.err # Nil
        THEN Out(NoObj, b.err, <<rec>>, <<call>>)
        ELSE Out(Wrapper("result", s.Logger, s.ctx, "", b.val), Nil,
                 <<rec>>, <<call>>)

\* Mutant: the probe is for the statement's other capability.
StatementExecContextProbesOther(s, ctx, nvdargs, b) ==
    IF "StmtQueryContext" \in s.inner.caps
    THEN LET call == Call(s.inner, "ExecContext", ctx, "", nvdargs, <<>>,
                          NoOpts, b)
             rec == Rec(s.Logger, "stmt-exec-context", ctx, s.query, nvdargs,
                        <<>>, NoOpts, b.val, b.err)
         IN  IF b.err # Nil
             THEN Out(NoObj, b.err, <<rec>>, <<call>>)
             ELSE Out(Wrapper("result", s.Logger, ctx, "", b.val), Nil,
                      <<rec>>, <<call>>)
    ELSE LET conv == namedValueToValue(nvdargs)
             rec == Rec(s.Logger, "stmt-exec-context", ctx, s.query, nvdargs,
                        <<>>, NoOpts, NoB, conv.err)
         IN  IF conv.err # Nil
             THEN Out(NoObj, conv.err, <<rec>>, <<>>)
             ELSE IF Done(ctx)
             THEN Out(NoObj, CtxErr(ctx), <<rec>>, <<>>)
             ELSE LET plain == StatementExec(s, conv.dargs, b)
                  IN  Out(plain.ret, plain.err, plain.log \o <<rec>>,
                          plain.calls)

StatementExecContext(s, ctx, nvdargs, b) ==
    IF "StmtExecContext" \in s.inner.caps
    THEN LET call == Call(s.inner, "ExecContext", ctx, "", nvdargs, <<>>,
                          NoOpts, b)
             rec == Rec(s.Logger, "stmt-exec-context", ctx, s.query, nvdargs,
                        <<>>, NoOpts, b.val, b.err)
         IN  IF b.err # Nil
             THEN Out(NoObj, b.err, <<rec>>, <<call>>)
             ELSE Out(Wrapper("result", s.Logger, ctx, "", b.val), Nil,
                      <<rec>>, <<call>>)
    ELSE LET conv == namedValueToValue(nvdargs)
             rec == Rec(s.Logger, "stmt-exec-context", ctx, s.query, nvdargs,
                        <<>>, NoOpts, NoB, conv.err)
         IN  IF conv.err # Nil
             THEN Out(NoObj, conv.err, <<rec>>, <<>>)
             ELSE IF Done(ctx)
             THEN Out(NoObj, CtxErr(ctx), <<rec>>, <<>>)
             ELSE LET plain == StatementExec(s, conv.dargs, b)
                  IN  Out(plain.ret, plain.err, plain.log \o <<rec>>,
                          plain.calls)

\* Mutant: the row iterator is built without the statement's Logger.
StatementQueryUnlogged(s, dargs, b) ==
    LET call == Call(s.inner, "Query", NoCtx, "", <<>>, dargs, NoOpts, b)
        rec == Rec(s.Logger, "stmt-query", NoCtx, s.query, <<>>, dargs, NoOpts,
                   NoB, b.err)
    IN  IF b.err # Nil
        THEN Out(NoObj, b.err, <<rec>>, <<call>>)
        ELSE Out(Wrapper("rowsIterator", "", s.ctx, "", b.val), Nil,
                 <<rec>>, <<call>>)

StatementQuery(s, dargs, b) ==
    LET call == Call(s.inner, "Query", NoCtx, "", <<>>, dargs, NoOpts, b)
        rec == Rec(s.Logger, "stmt-query", NoCtx, s.query, <<>>, dargs, NoOpts,
                   NoB, b.err)
    IN  IF b.err # Nil
        THEN Out(NoObj, b.err, <<rec>>, <<call>>)
        ELSE Out(Wrapper("rowsIterator", s.Logger, s.ctx, "", b.val), Nil,
                 <<rec>>, <<call>>)

StatementQueryContext(s, ctx, nvdargs, b) ==
    IF "StmtQueryContext" \in s.inner.caps
    THEN LET call == Call(s.inner, "QueryContext", ctx, "", nvdargs, <<>>,
                          NoOpts, b)
             rec == Rec(s.Logger, "stmt-query-context", ctx, s.query, nvdargs,
                        <<>>, NoOpts, NoB, b.err)
         IN  IF b.err # Nil
             THEN Out(NoObj, b.err, <<rec>>, <<call>>)
             ELSE Out(Wrapper("rowsIterator", s.Logger, ctx, "", b.val), Nil,
                      <<rec>>, <<call>>)
    ELSE LET conv == namedValueToValue(nvdargs)
             rec == Rec(s.Logger, "stmt-query-context", ctx, s.query, nvdargs,
                        <<>>, NoOpts, NoB, conv.err)
         IN  IF conv.err # Nil
             THEN Out(NoObj, conv.err, <<rec>>, <<>>)
             ELSE IF Done(ctx)
             THEN Out(NoObj, CtxErr(ctx), <<rec>>, <<>>)
             ELSE LET plain == StatementQuery(s, conv.dargs, b)
                  IN  Out(plain.ret, plain.err, plain.log \o <<rec>>,
                          plain.calls)

\* ---------------------------------------------------------- rowsIterator
\* The backend fills dest with the row it read; the row left-th from the
\* end holds the value `left`.
FilledDest(r, dest, b) == IF b.err = Nil THEN <<r.inner.n>> ELSE dest

\* Mutant: the end of the data is not reported to the Logger.
RowsIteratorNextQuietEnd(r, dest, b) ==
    Out(NoObj, b.err,
        IF b.err = EOF
        THEN <<>>
        ELSE <<Rec(r.Logger, "rows-next", NoCtx, "", <<>>,
                   FilledDest(r, dest, b), NoOpts, NoB, b.err)>>,
        <<Call(r.inner, "Next", NoCtx, "", <<>>, dest, NoOpts, b)>>)

RowsIteratorNext(r, dest, b) ==
    Out(NoObj, b.err,
        <<Rec(r.Logger, "rows-next", NoCtx, "", <<>>, FilledDest(r, dest, b),
              NoOpts, NoB, b.err)>>,
        <<Call(r.inner, "Next", NoCtx, "", <<>>, dest, NoOpts, b)>>)

\* ----------------------------------------------------------- transaction
TransactionCommit(tx, b) ==
    Out(NoObj, b.err,
        <<Rec(tx.Logger, "tx-commit", NoCtx, "", <<>>, <<>>, NoOpts, NoB, b.err)>>,
        <<Call(tx.inner, "Commit", NoCtx, "", <<>>, <<>>, NoOpts, b)>>)

TransactionRollback(tx, b) ==
    Out(NoObj, b.err,
        <<Rec(tx.Logger, "tx-rollback", NoCtx, "", <<>>, <<>>, NoOpts, NoB,
              b.err)>>,
        <<Call(tx.inner, "Rollback", NoCtx, "", <<>>, <<>>, NoOpts, b)>>)

\* ----------------------------------------------------------------- state
VARIABLES
    drv,    \* the Driver: its Logger and the backend driver
    held,   \* the wrapper the caller holds (connection, statement, row
            \* iterator or transaction), or NoObj
    op,     \* the operation that has just completed, or NoOp
    log,    \* the Logger calls of that operation, in order
    calls,  \* the backend calls of that operation, in order
    \* a session of database/sql on one connection (Session below)
    script, \* what the caller runs: "wipe", "query", "tx", or "none"
    pc,     \* the call the session makes next
    plan,   \* the context, query and parameters the caller passes
    sub,    \* the statement, row iterator or transaction obtained from
            \* the connection, innermost last
    hist,   \* every record the Logger has received, in the order received
    trace,  \* every operation completed, in the order completed
    \* the Gob Logger (Logging below)
    msg,    \* the arguments of the Logger call being served
    desc,   \* the description it has written for them, or NoDesc
    \* the Gob Logger's pools under concurrent Logger calls (Pooling below)
    bufPool, \* how many times each bytes.Buffer lies in bufPool
    binPool, \* how many times each bin lies in binPool
    gpc,     \* where each goroutine is in its Logger call
    frame,   \* its locals: buf, the reader's binary, the Read calls made,
             \* the buffers Read took and kept, the Logger calls begun
    holds,   \* the pooled objects it refers to, taken and not put back
    binData, \* the goroutine whose record each bin carries
    access   \* the latest read or write of a pooled object

session == <<script, pc, plan, sub, hist, trace>>
pooling == <<bufPool, binPool, gpc, frame, holds, binData, access>>
gob == <<msg, desc, pooling>>
vars == <<drv, held, op, log, calls, session, gob>>

\* A caller's operation: the method, its receiver and arguments, and what
\* it returned.
Op(name, recv, ctx, query, nvdargs, dargs, opts, out) ==
    [name |-> name, recv |-> recv, ctx |-> ctx, query |-> query,
     nvdargs |-> nvdargs, dargs |-> dargs, opts |-> opts,
     ret |-> out.ret, err |-> out.err]
NoOp ==
    Op("none", NoObj, NoCtx, "", <<>>, <<>>, NoOpts,
       Out(NoObj, Nil, <<>>, <<>>))
NoPlan == [ctx |-> NoCtx, query |-> "", nvdargs |-> <<>>]
NoSession ==
    /\ script = "none"
    /\ pc = "none"
    /\ plan = NoPlan
    /\ sub = <<>>
    /\ hist = <<>>
    /\ trace = <<>>
NoMsg == [form |-> "none"]
NoDesc == [topic |-> "none"]
\* Two goroutines logging at once (two connections of a pool), and the
\* most Read calls io.Copy is followed through.
Goroutines == {1, 2}
MaxReads == 2
MaxLogs == 2
Bufs == 1..(Cardinality(Goroutines) * MaxLogs)
Bins == 1..(Cardinality(Goroutines) * MaxLogs)
NoFrame ==
    [buf |-> 0, binary |-> 0, reads |-> 0, kept |-> 0, sent |-> 0, logs |-> 1]
NoAccess == [by |-> 0, obj |-> <<"none", 0>>, held |-> TRUE, own |-> TRUE]
NoPooling ==
    /\ bufPool = [b \in Bufs |-> 0]
    /\ binPool = [b \in Bins |-> 0]
    /\ gpc = [p \in Goroutines |-> "idle"]
    /\ frame = [p \in Goroutines |-> NoFrame]
    /\ holds = [p \in Goroutines |-> {}]
    /\ binData = [b \in Bins |-> 0]
    /\ access = NoAccess
NoGob ==
    /\ msg = NoMsg
    /\ desc = NoDesc
    /\ NoPooling

Init ==
    /\ drv \in {Wrapper("Driver", l, NoCtx, "", Backend("driver", {}, 0)) :
                   l \in Loggers}
    /\ held = NoObj
    /\ op = NoOp
    /\ log = <<>>
    /\ calls = <<>>
    /\ NoSession
    /\ NoGob

\* The caller is between two operations.
Idle == op = NoOp

Completed(o, out) ==
    /\ op' = o
    /\ log' = out.log
    /\ calls' = out.calls
    /\ UNCHANGED <<session, gob>>

\* A call on the connection held.
OnConn(name, ctx, query, nvdargs, dargs, opts, out) ==
    /\ Completed(Op(name, held, ctx, query, nvdargs, dargs, opts, out), out)
    /\ UNCHANGED <<drv, held>>

\* A call on the statement, row iterator or transaction held.
OnHeld(name, ctx, nvdargs, dargs, out) ==
    /\ Completed(Op(name, held, ctx, "", nvdargs, dargs, NoOpts, out), out)
    /\ UNCHANGED drv

Open ==
    /\ Idle
    /\ \E name \in DataSourceNames, b \in Responses(BackendConns) :
        LET out == DriverOpen(drv, name, b)
        IN  /\ Completed(Op("Driver.Open", drv, NoCtx, name, <<>>, <<>>,
                            NoOpts, out), out)
            /\ UNCHANGED <<drv, held>>

ConnPrepare ==
    /\ Idle /\ held.kind = "connection"
    /\ \E query \in Queries, b \in Responses(BackendStmts) :
        OnConn("conn.Prepare", NoCtx, query, <<>>, <<>>, NoOpts,
               ConnectionPrepare(held, query, b))

ConnClose ==
    /\ Idle /\ held.kind = "connection"
    /\ \E b \in ErrResponses :
        OnConn("conn.Close", NoCtx, "", <<>>, <<>>, NoOpts,
               ConnectionClose(held, b))

ConnBegin ==
    /\ Idle /\ held.kind = "connection"
    /\ \E b \in Responses(BackendTxs) :
        OnConn("conn.Begin", NoCtx, "", <<>>, <<>>, NoOpts,
               ConnectionBegin(held, b))

ConnBeginTx ==
    /\ Idle /\ held.kind = "connection"
    /\ \E ctx \in Contexts, opts \in TxOptions, b \in Responses(BackendTxs) :
        OnConn("conn.BeginTx", ctx, "", <<>>, <<>>, opts,
               ConnectionBeginTx(held, ctx, opts, b))

ConnPrepareContext ==
    /\ Idle /\ held.kind = "connection"
    /\ \E ctx \in Contexts, query \in Queries, b \in Responses(BackendStmts) :
        OnConn("conn.PrepareContext", ctx, query, <<>>, <<>>, NoOpts,
               ConnectionPrepareContext(held, ctx, query, b))

ConnExec ==
    /\ Idle /\ held.kind = "connection"
    /\ \E query \in Queries, dargs \in ValueLists,
          b \in Responses(BackendResults) :
        OnConn("conn.Exec", NoCtx, query, <<>>, dargs, NoOpts,
               ConnectionExec(held, query, dargs, b))

ConnExecContext ==
    /\ Idle /\ held.kind = "connection"
    /\ \E ctx \in Contexts, query \in Queries, nvdargs \in NamedValueLists,
          b \in Responses(BackendResults) :
        OnConn("conn.ExecContext", ctx, query, nvdargs, <<>>, NoOpts,
               ConnectionExecContext(held, ctx, query, nvdargs, b))

ConnPing ==
    /\ Idle /\ held.kind = "connection"
    /\ \E ctx \in Contexts, b \in ErrResponses :
        OnConn("conn.Ping", ctx, "", <<>>, <<>>, NoOpts,
               ConnectionPing(held, ctx, b))

ConnQuery ==
    /\ Idle /\ held.kind = "connection"
    /\ \E query \in Queries, dargs \in ValueLists,
          b \in Responses(BackendRows) :
        OnConn("conn.Query", NoCtx, query, <<>>, dargs, NoOpts,
               ConnectionQuery(held, query, dargs, b))

ConnQueryContext ==
    /\ Idle /\ held.kind = "connection"
    /\ \E ctx \in Contexts, query \in Queries, nvdargs \in NamedValueLists,
          b \in Responses(BackendRows) :
        OnConn("conn.QueryContext", ctx, query, nvdargs, <<>>, NoOpts,
               ConnectionQueryContext(held, ctx, query, nvdargs, b))

ConnResetSession ==
    /\ Idle /\ held.kind = "connection"
    /\ \E ctx \in Contexts, b \in ErrResponses :
        OnConn("conn.ResetSession", ctx, "", <<>>, <<>>, NoOpts,
               ConnectionResetSession(held, ctx, b))

StmtClose ==
    /\ Idle /\ held.kind = "statement"
    /\ \E b \in ErrResponses :
        /\ OnHeld("stmt.Close", NoCtx, <<>>, <<>>, StatementClose(held, b))
        /\ UNCHANGED held

StmtExec ==
    /\ Idle /\ held.kind = "statement"
    /\ \E dargs \in ValueLists, b \in Responses(BackendResults) :
        /\ OnHeld("stmt.Exec", NoCtx, <<>>, dargs, StatementExec(held, dargs, b))
        /\ UNCHANGED held

StmtExecContext ==
    /\ Idle /\ held.kind = "statement"
    /\ \E ctx \in Contexts, nvdargs \in NamedValueLists,
          b \in Responses(BackendResults) :
        /\ OnHeld("stmt.ExecContext", ctx, nvdargs, <<>>,
                  StatementExecContext(held, ctx, nvdargs, b))
        /\ UNCHANGED held

StmtQuery ==
    /\ Idle /\ held.kind = "statement"
    /\ \E dargs \in ValueLists, b \in Responses(BackendRows) :
        /\ OnHeld("stmt.Query", NoCtx, <<>>, dargs,
                  StatementQuery(held, dargs, b))
        /\ UNCHANGED held

StmtQueryContext ==
    /\ Idle /\ held.kind = "statement"
    /\ \E ctx \in Contexts, nvdargs \in NamedValueLists,
          b \in Responses(BackendRows) :
        /\ OnHeld("stmt.QueryContext", ctx, nvdargs, <<>>,
                  StatementQueryContext(held, ctx, nvdargs, b))
        /\ UNCHANGED held

\* What the backend result set answers to Next: the next row while one is
\* left and io.EOF after the last, or a failure.
NextResponses(r) ==
    {[val |-> NoB, err |-> IF r.inner.n > 0 THEN Nil ELSE EOF],
     [val |-> NoB, err |-> ErrBackend]}

RowsNext ==
    /\ Idle /\ held.kind = "rowsIterator"
    /\ \E b \in NextResponses(held) :
        /\ OnHeld("rows.Next", NoCtx, <<>>, <<0>>,
                  RowsIteratorNext(held, <<0>>, b))
        \* the backend result set has moved past the row it returned
        /\ held' = IF b.err = Nil
                   THEN [held EXCEPT !.inner.n = @ - 1]
                   ELSE held

TxCommit ==
    /\ Idle /\ held.kind = "transaction"
    /\ \E b \in ErrResponses :
        /\ OnHeld("tx.Commit", NoCtx, <<>>, <<>>, TransactionCommit(held, b))
        /\ UNCHANGED held

TxRollback ==
    /\ Idle /\ held.kind = "transaction"
    /\ \E b \in ErrResponses :
        /\ OnHeld("tx.Rollback", NoCtx, <<>>, <<>>,
                  TransactionRollback(held, b))
        /\ UNCHANGED held

\* The caller goes on with the connection, statement, row iterator or
\* transaction the operation returned ...
Take ==
    /\ ~Idle
    /\ op.ret.kind \in {"connection", "statement", "rowsIterator", "transaction"}
    /\ held' = op.ret
    /\ op' = NoOp
    /\ log' = <<>>
    /\ calls' = <<>>
    /\ UNCHANGED <<drv, session, gob>>

\* ... or with the wrapper it held, dropping what was returned.
Drop ==
    /\ ~Idle
    /\ op' = NoOp
    /\ log' = <<>>
    /\ calls' = <<>>
    /\ UNCHANGED <<drv, held, session, gob>>

Next ==
    \/ Open
    \/ ConnPrepare
    \/ ConnClose
    \/ ConnBegin
    \/ ConnBeginTx
    \/ ConnPrepareContext
    \/ ConnExec
    \/ ConnExecContext
    \/ ConnPing
    \/ ConnQuery
    \/ ConnQueryContext
    \/ ConnResetSession
    \/ StmtClose
    \/ StmtExec
    \/ StmtExecContext
    \/ StmtQuery
    \/ StmtQueryContext
    \/ RowsNext
    \/ TxCommit
    \/ TxRollback
    \/ Take
    \/ Drop

Spec == Init /\ [][Next]_vars

\* ---------------------------------------------------------------- session
\* database/sql driving one proxied connection from Open to Close, as the
\* Gob tests do: "wipe" is db.Exec, "query" is db.Query read to its end,
\* "tx" is db.BeginTx with Commit (and Rollback after a failed Commit).
\* The caller passes the same context, query and parameters to every call
\* of a session. Each call below is the whole proxy method, Logger calls
\* included, and returns before the next one starts.
Scripts == {"wipe", "query", "tx"}
\* The parameter lists of a session: none, one unnamed, one named.
SessionParams ==
    {<<>>} \cup {<<NamedValue(name, 1, 7)>> : name \in Names}
Plans == [ctx : Contexts, query : Queries, nvdargs : SessionParams]

\* Mutant: the Logger's sink puts each new record in front of the others.
EmitFront(received, records) == records \o received

\* The records the Logger has received once a method has made its Logger
\* calls: the calls are synchronous, made before the method returns.
Emit(received, records) == received \o records

Performed(name, recv, ctx, query, nvdargs, dargs, opts, out) ==
    LET o == Op(name, recv, ctx, query, nvdargs, dargs, opts, out)
    IN  /\ op' = o
        /\ log' = out.log
        /\ calls' = out.calls
        /\ hist' = Emit(hist, out.log)
        /\ trace' = Append(trace, o)
        /\ UNCHANGED <<drv, script, plan, gob>>

Top == sub[Len(sub)]
Pop == SubSeq(sub, 1, Len(sub) - 1)
FirstCall ==
    CASE script = "wipe" -> "conn.ExecContext"
      [] script = "query" -> "conn.QueryContext"
      [] OTHER -> "conn.BeginTx"

SessionInit ==
    /\ drv \in {Wrapper("Driver", l, NoCtx, "", Backend("driver", {}, 0)) :
                   l \in Loggers}
    /\ held = NoObj
    /\ op = NoOp
    /\ log = <<>>
    /\ calls = <<>>
    /\ script \in Scripts
    /\ pc = "Driver.Open"
    /\ plan \in Plans
    /\ sub = <<>>
    /\ hist = <<>>
    /\ trace = <<>>
    /\ NoGob

CallOpen ==
    /\ pc = "Driver.Open"
    /\ \E name \in DataSourceNames, b \in Responses(BackendConns) :
        LET out == DriverOpen(drv, name, b)
        IN  /\ Performed("Driver.Open", drv, NoCtx, name, <<>>, <<>>, NoOpts,
                         out)
            /\ held' = out.ret
            /\ pc' = IF out.err = Nil THEN FirstCall ELSE "done"
            /\ UNCHANGED sub

CallConnExecContext ==
    /\ pc = "conn.ExecContext"
    /\ \E b \in Responses(BackendResults) :
        LET out == ConnectionExecContext(held, plan.ctx, plan.query,
                                         plan.nvdargs, b)
        IN  /\ Performed("conn.ExecContext", held, plan.ctx, plan.query,
                         plan.nvdargs, <<>>, NoOpts, out)
            \* database/sql prepares a statement when told to skip
            /\ pc' = IF out.err = ErrSkip THEN "conn.PrepareContext"
                     ELSE "conn.Close"
            /\ UNCHANGED <<held, sub>>

CallConnQueryContext ==
    /\ pc = "conn.QueryContext"
    /\ \E b \in Responses(BackendRows) :
        LET out == ConnectionQueryContext(held, plan.ctx, plan.query,
                                          plan.nvdargs, b)
        IN  /\ Performed("conn.QueryContext", held, plan.ctx, plan.query,
                         plan.nvdargs, <<>>, NoOpts, out)
            /\ sub' = IF out.err = Nil THEN Append(sub, out.ret) ELSE sub
            /\ pc' = CASE out.err = Nil -> "rows.Next"
                       [] out.err = ErrSkip -> "conn.PrepareContext"
                       [] OTHER -> "conn.Close"
            /\ UNCHANGED held

CallConnPrepareContext ==
    /\ pc = "conn.PrepareContext"
    /\ \E b \in Responses(BackendStmts) :
        LET out == ConnectionPrepareContext(held, plan.ctx, plan.query, b)
        IN  /\ Performed("conn.PrepareContext", held, plan.ctx, plan.query,
                         <<>>, <<>>, NoOpts, out)
            /\ sub' = IF out.err = Nil THEN Append(sub, out.ret) ELSE sub
            /\ pc' = CASE out.err # Nil -> "conn.Close"
                       [] script = "wipe" -> "stmt.ExecContext"
                       [] OTHER -> "stmt.QueryContext"
            /\ UNCHANGED held

CallStmtExecContext ==
    /\ pc = "stmt.ExecContext"
    /\ \E b \in Responses(BackendResults) :
        LET out == StatementExecContext(Top, plan.ctx, plan.nvdargs, b)
        IN  /\ Performed("stmt.ExecContext", Top, plan.ctx, "", plan.nvdargs,
                         <<>>, NoOpts, out)
            /\ pc' = "stmt.Close"
            /\ UNCHANGED <<held, sub>>

CallStmtQueryContext ==
    /\ pc = "stmt.QueryContext"
    /\ \E b \in Responses(BackendRows) :
        LET out == StatementQueryContext(Top, plan.ctx, plan.nvdargs, b)
        IN  /\ Performed("stmt.QueryContext", Top, plan.ctx, "", plan.nvdargs,
                         <<>>, NoOpts, out)
            /\ sub' = IF out.err = Nil THEN Append(sub, out.ret) ELSE sub
            /\ pc' = IF out.err = Nil THEN "rows.Next" ELSE "stmt.Close"
            /\ UNCHANGED held

\* The buffer the caller passes to Next: database/sql keeps one buffer per
\* result set, so it still holds the row read before.
Dest == IF op.name = "rows.Next" THEN log[1].dargs ELSE <<0>>

CallRowsNext ==
    /\ pc = "rows.Next"
    /\ \E b \in NextResponses(Top) :
        LET out == RowsIteratorNext(Top, Dest, b)
        IN  /\ Performed("rows.Next", Top, NoCtx, "", <<>>, Dest, NoOpts, out)
            \* the backend result set has moved past the row it returned;
            \* the caller stops at the first error
            /\ sub' = IF b.err = Nil
                      THEN [sub EXCEPT ![Len(sub)].inner.n = @ - 1]
                      ELSE Pop
            /\ pc' = CASE b.err = Nil -> "rows.Next"
                       [] Len(sub) > 1 -> "stmt.Close"
                       [] OTHER -> "conn.Close"
            /\ UNCHANGED held

CallStmtClose ==
    /\ pc = "stmt.Close"
    /\ \E b \in ErrResponses :
        LET out == StatementClose(Top, b)
        IN  /\ Performed("stmt.Close", Top, NoCtx, "", <<>>, <<>>, NoOpts, out)
            /\ sub' = Pop
            /\ pc' = "conn.Close"
            /\ UNCHANGED held

CallConnBeginTx ==
    /\ pc = "conn.BeginTx"
    /\ \E opts \in TxOptions, b \in Responses(BackendTxs) :
        LET out == ConnectionBeginTx(held, plan.ctx, opts, b)
        IN  /\ Performed("conn.BeginTx", held, plan.ctx, "", <<>>, <<>>, opts,
                         out)
            /\ sub' = IF out.err = Nil THEN Append(sub, out.ret) ELSE sub
            /\ pc' = IF out.err = Nil THEN "tx.Commit" ELSE "conn.Close"
            /\ UNCHANGED held

CallTxCommit ==
    /\ pc = "tx.Commit"
    /\ \E b \in ErrResponses :
        LET out == TransactionCommit(Top, b)
        IN  /\ Performed("tx.Commit", Top, NoCtx, "", <<>>, <<>>, NoOpts, out)
            /\ sub' = IF out.err = Nil THEN Pop ELSE sub
            /\ pc' = IF out.err = Nil THEN "conn.Close" ELSE "tx.Rollback"
            /\ UNCHANGED held

CallTxRollback ==
    /\ pc = "tx.Rollback"
    /\ \E b \in ErrResponses :
        LET out == TransactionRollback(Top, b)
        IN  /\ Performed("tx.Rollback", Top, NoCtx, "", <<>>, <<>>, NoOpts,
                         out)
            /\ sub' = Pop
            /\ pc' = "conn.Close"
            /\ UNCHANGED held

CallConnClose ==
    /\ pc = "conn.Close"
    /\ \E b \in ErrResponses :
        LET out == ConnectionClose(held, b)
        IN  /\ Performed("conn.Close", held, NoCtx, "", <<>>, <<>>, NoOpts, out)
            /\ pc' = "done"
            /\ UNCHANGED <<held, sub>>

SessionNext ==
    \/ CallOpen
    \/ CallConnExecContext
    \/ CallConnQueryContext
    \/ CallConnPrepareContext
    \/ CallStmtExecContext
    \/ CallStmtQueryContext
    \/ CallRowsNext
    \/ CallStmtClose
    \/ CallConnBeginTx
    \/ CallTxCommit
    \/ CallTxRollback
    \/ CallConnClose

Session == SessionInit /\ [][SessionNext]_vars

\* ------------------------------------------------------------- Gob logger
\* Text is a sequence of one-character strings.
MaxSegs == 3
MaxParams == 10

\* strings.Index family: substr occurs in s at position i (from 1).
HasPrefixAt(s, substr, i) ==
    /\ i + Len(substr) - 1 <= Len(s)
    /\ \A j \in 1..Len(substr) : s[i + j - 1] = substr[j]
Occurrences(s, substr) == {i \in 1..Len(s) : HasPrefixAt(s, substr, i)}
\* Mutant: the index of the first occurrence.
IndexFirst(s, substr) ==
    IF Occurrences(s, substr) = {} THEN -1
    ELSE (CHOOSE i \in Occurrences(s, substr) :
              \A j \in Occurrences(s, substr) : i <= j) - 1

\* strings.LastIndex: the index from 0 of the last occurrence, or -1.
LastIndex(s, substr) ==
    IF Occurrences(s, substr) = {} THEN -1
    ELSE (CHOOSE i \in Occurrences(s, substr) :
              \A j \in Occurrences(s, substr) : j <= i) - 1
\* strings.Replace(s, old, new, -1): every non-overlapping occurrence of a
\* non-empty old, from the left.
RECURSIVE ReplaceFrom(_, _, _, _)
ReplaceFrom(s, old, new, i) ==
    IF i > Len(s) THEN <<>>
    ELSE IF HasPrefixAt(s, old, i)
    THEN new \o ReplaceFrom(s, old, new, i + Len(old))
    ELSE <<s[i]>> \o ReplaceFrom(s, old, new, i + 1)
Replace(s, old, new) == ReplaceFrom(s, old, new, 1)
\* fmt.Sprintf("%d", n) for n >= 0.
Digits == <<"0", "1", "2", "3", "4", "5", "6", "7", "8", "9">>
RECURSIVE Itoa(_)
Itoa(n) ==
    IF n < 10 THEN <<Digits[n + 1]>>
    ELSE Itoa(n \div 10) \o <<Digits[(n % 10) + 1]>>

\* Parameter values by kind, and the literal formatter (sqlteescan
\* ValueString), whose code is not among the sources: as specified and as
\* its test table expects, an integer is its decimal text, a floating point
\* number its shortest decimal text, a boolean TRUE or FALSE, a byte
\* sequence E'\\x<hex>', a string its text in single quotes, a timestamp
\* its instant in single quotes, a nil pointer NULL, a pointer to a value
\* what the value is, and any other kind fails.
UnsupportedType == "sqlteescan: unsupported type"
IntV(n) == [kind |-> "int", val |-> n]
\* A floating point number with one decimal place: whole + tenths / 10.
FloatV(whole, tenths) == [kind |-> "float", val |-> <<whole, tenths>>]
BoolV(b) == [kind |-> "bool", val |-> b]
\* A byte sequence, each byte a number below 256.
BytesV(bytes) == [kind |-> "bytes", val |-> bytes]
StrV(text) == [kind |-> "string", val |-> text]
\* An instant in UTC: year, month, day, hour, minute, second.
TimeV(instant) == [kind |-> "time", val |-> instant]
NilV == [kind |-> "nil", val |-> <<>>]
\* The nil pointer to a value of kind k, and a pointer to the value v.
NilP(k) == [kind |-> "nil", val |-> k]
PtrV(v) == [kind |-> "pointer", val |-> v]
StructV == [kind |-> "struct", val |-> <<>>]

Decimal(n) == IF n < 0 THEN <<"-">> \o Itoa(0 - n) ELSE Itoa(n)
\* Two decimal digits, as the fields of an instant are written.
Pad2(n) == <<Digits[(n \div 10) + 1], Digits[(n % 10) + 1]>>
HexDigits ==
    <<"0", "1", "2", "3", "4", "5", "6", "7", "8", "9",
      "a", "b", "c", "d", "e", "f">>
RECURSIVE Hex(_)
Hex(bytes) ==
    IF bytes = <<>> THEN <<>>
    ELSE <<HexDigits[(Head(bytes) \div 16) + 1], HexDigits[(Head(bytes) % 16) + 1]>>
         \o Hex(Tail(bytes))
FloatText(f) ==
    IF f[2] = 0 THEN Decimal(f[1]) ELSE Decimal(f[1]) \o <<".">> \o Itoa(f[2])
InstantText(t) ==
    Itoa(t[1]) \o <<"-">> \o Pad2(t[2]) \o <<"-">> \o Pad2(t[3]) \o <<"T">>
    \o Pad2(t[4]) \o <<":">> \o Pad2(t[5]) \o <<":">> \o Pad2(t[6]) \o <<"Z">>
Literally(text) == [text |-> text, err |-> Nil]

\* Mutant: every pointer is written as NULL, whether or not it holds a
\* value.
RECURSIVE ValueStringNullsPointers(_)
ValueStringNullsPointers(v) ==
    CASE v.kind = "int" -> Literally(Decimal(v.val))
      [] v.kind = "float" -> Literally(FloatText(v.val))
      [] v.kind = "bool" ->
            Literally(IF v.val THEN <<"T", "R", "U", "E">>
                      ELSE <<"F", "A", "L", "S", "E">>)
      [] v.kind = "bytes" ->
            Literally(<<"E", "'", "\\", "\\", "x">> \o Hex(v.val) \o <<"'">>)
      [] v.kind = "string" -> Literally(<<"'">> \o v.val \o <<"'">>)
      [] v.kind = "time" -> Literally(<<"'">> \o InstantText(v.val) \o <<"'">>)
      [] v.kind = "nil" -> Literally(<<"N", "U", "L", "L">>)
      [] v.kind = "pointer" -> Literally(<<"N", "U", "L", "L">>)
      [] OTHER -> [text |-> <<>>, err |-> UnsupportedType]

RECURSIVE ValueString(_)
ValueString(v) ==
    CASE v.kind = "int" -> Literally(Decimal(v.val))
      [] v.kind = "float" -> Literally(FloatText(v.val))
      [] v.kind = "bool" ->
            Literally(IF v.val THEN <<"T", "R", "U", "E">>
                      ELSE <<"F", "A", "L", "S", "E">>)
      [] v.kind = "bytes" ->
            Literally(<<"E", "'", "\\", "\\", "x">> \o Hex(v.val) \o <<"'">>)
      [] v.kind = "string" -> Literally(<<"'">> \o v.val \o <<"'">>)
      [] v.kind = "time" -> Literally(<<"'">> \o InstantText(v.val) \o <<"'">>)
      [] v.kind = "nil" -> Literally(<<"N", "U", "L", "L">>)
      [] v.kind = "pointer" -> ValueString(v.val)
      [] OTHER -> [text |-> <<>>, err |-> UnsupportedType]

\* The parameter scanner (sqlteescan Scanner), whose code is not among the
\* sources: as specified, it yields one (placeholder, ordinal, literal)
\* triple per bound parameter, positional ones by position and named ones
\* by their ordinal, from the last to the first when Reverse is set, and
\* fails at the first parameter whose value has no literal. Param(.., k) is
\* what the k-th successful Scan() leaves in Param(), or the error that
\* makes the k-th Scan() return false.
ScanLen(dargs, nvdargs) ==
    IF Len(dargs) # 0 THEN Len(dargs) ELSE Len(nvdargs)
ScanIndex(dargs, nvdargs, reverse, k) ==
    IF reverse THEN ScanLen(dargs, nvdargs) + 1 - k ELSE k
Param(dargs, nvdargs, reverse, k) ==
    LET i == ScanIndex(dargs, nvdargs, reverse, k)
        named == Len(dargs) = 0
        lit == ValueString(IF named THEN nvdargs[i].Value ELSE dargs[i])
    IN  [placeholder |-> IF named THEN nvdargs[i].Name ELSE <<>>,
         ordinal |-> IF named THEN nvdargs[i].Ordinal ELSE i,
         value |-> lit.text,
         err |-> lit.err]

\* One turn of the loop of Gob.interpolation on the text built so far.
Substitute(g, interpolation, p) ==
    LET placeholder ==
            IF p.placeholder = <<>> /\ p.ordinal # 0
            THEN <<"$">> \o Itoa(p.ordinal)
            ELSE p.placeholder
    IN  IF g.Placeholder = <<>> /\ placeholder # <<>>
        THEN Replace(interpolation, placeholder, p.value)
        ELSE LET marker == IF g.Placeholder # <<>> THEN g.Placeholder
                           ELSE IF placeholder = <<>> THEN <<"?">>
                           ELSE placeholder
                 i == LastIndex(interpolation, marker)
             IN  IF i # -1
                 \* interpolation[:i] + value + interpolation[i+1:]
                 THEN SubSeq(interpolation, 1, i) \o p.value
                          \o SubSeq(interpolation, i + 2, Len(interpolation))
                 ELSE interpolation

\* Mutant: scan.Reverse is left unset.
RECURSIVE ScanningForward(_, _, _, _, _, _)
ScanningForward(g, query, dargs, nvdargs, interpolation, k) ==
    IF k > ScanLen(dargs, nvdargs)
    THEN [interpolation |-> interpolation, err |-> Nil]
    ELSE LET p == Param(dargs, nvdargs, FALSE, k)
         IN  IF p.err # Nil
             THEN [interpolation |-> interpolation, err |-> p.err]
             ELSE LET next == Substitute(g, IF interpolation = <<>> THEN query
                                            ELSE interpolation, p)
                  IN  IF next = query
                      THEN [interpolation |-> <<>>, err |-> Nil]
                      ELSE ScanningForward(g, query, dargs, nvdargs, next,
                                           k + 1)

\* The loop `for scan.Scan()` from its k-th turn on: the text it leaves and
\* what scan.Err() then answers.
RECURSIVE Scanning(_, _, _, _, _, _)
Scanning(g, query, dargs, nvdargs, interpolation, k) ==
    IF k > ScanLen(dargs, nvdargs)
    THEN [interpolation |-> interpolation, err |-> Nil]
    ELSE LET p == Param(dargs, nvdargs, TRUE, k)
         IN  IF p.err # Nil
             THEN [interpolation |-> interpolation, err |-> p.err]
             ELSE LET next == Substitute(g, IF interpolation = <<>> THEN query
                                            ELSE interpolation, p)
                  IN  IF next = query
                      THEN [interpolation |-> <<>>, err |-> Nil]
                      ELSE Scanning(g, query, dargs, nvdargs, next, k + 1)

\* A driver.Result as the Logger sees it: what LastInsertId and
\* RowsAffected answer. NoRes is the nil Result.
Result(id, idErr, n, nErr) ==
    [kind |-> "result", id |-> id, idErr |-> idErr, n |-> n, nErr |-> nErr]
NoRes == [kind |-> "nil", id |-> 0, idErr |-> Nil, n |-> 0, nErr |-> Nil]

\* Mutant: a scan error leaves the text built so far in the description.
GobInterpolationKeepsPartial(g, topic, query, dargs, nvdargs, res, derr) ==
    LET scan == Scanning(g, query, dargs, nvdargs, <<>>, 1)
        interpolation == scan.interpolation
    IN  [topic |-> topic,
         error |-> derr,
         scanError |-> scan.err,
         interpolation |-> interpolation,
         query |-> IF interpolation = <<>> THEN query ELSE <<>>,
         args |-> IF interpolation # <<>> THEN <<>>
                  ELSE IF Len(dargs) # 0 THEN dargs
                  ELSE nvdargs,
         lastInsertId |-> IF res # NoRes /\ res.idErr = Nil /\ res.id # 0
                          THEN <<res.id>> ELSE <<>>,
         rowsAffected |-> IF res # NoRes /\ res.nErr = Nil /\ res.n # 0
                          THEN <<res.n>> ELSE <<>>]

\* Mutant: RowsAffected is asked only once LastInsertId has been written.
GobInterpolationNested(g, topic, query, dargs, nvdargs, res, derr) ==
    LET scan == Scanning(g, query, dargs, nvdargs, <<>>, 1)
        interpolation == IF scan.err # Nil THEN <<>> ELSE scan.interpolation
        id == res # NoRes /\ res.idErr = Nil /\ res.id # 0
    IN  [topic |-> topic,
         error |-> derr,
         scanError |-> scan.err,
         interpolation |-> interpolation,
         query |-> IF interpolation = <<>> THEN query ELSE <<>>,
         args |-> IF interpolation # <<>> THEN <<>>
                  ELSE IF Len(dargs) # 0 THEN dargs
                  ELSE nvdargs,
         lastInsertId |-> IF id THEN <<res.id>> ELSE <<>>,
         rowsAffected |-> IF id /\ res.nErr = Nil /\ res.n # 0
                          THEN <<res.n>> ELSE <<>>]

\* Gob.interpolation: the parts of the description it writes to the
\* buffer. A part that is not written is empty.
GobInterpolation(g, topic, query, dargs, nvdargs, res, derr) ==
    LET scan == Scanning(g, query, dargs, nvdargs, <<>>, 1)
        interpolation == IF scan.err # Nil THEN <<>> ELSE scan.interpolation
    IN  [topic |-> topic,
         error |-> derr,
         scanError |-> scan.err,
         interpolation |-> interpolation,
         query |-> IF interpolation = <<>> THEN query ELSE <<>>,
         args |-> IF interpolation # <<>> THEN <<>>
                  ELSE IF Len(dargs) # 0 THEN dargs
                  ELSE nvdargs,
         lastInsertId |-> IF res # NoRes /\ res.idErr = Nil /\ res.id # 0
                          THEN <<res.id>> ELSE <<>>,
         rowsAffected |-> IF res # NoRes /\ res.nErr = Nil /\ res.n # 0
                          THEN <<res.n>> ELSE <<>>]

\* The Logger calls served. Queries are built of a piece of plain text and
\* the placeholders $1, $10 and ?; the parameters are the integer 7, but
\* for the first or the last, which may be a string, a nil pointer or a
\* value of a kind that has no literal.
Markers == {<<>>, <<"?">>}
Segments == {<<"a">>, <<"$", "1">>, <<"$", "1", "0">>, <<"?">>}
RECURSIVE Concat(_)
Concat(texts) ==
    IF texts = <<>> THEN <<>> ELSE Head(texts) \o Concat(Tail(texts))
QueryTexts ==
    {Concat(f) : f \in UNION {[1..n -> Segments] : n \in 0..MaxSegs}}
OddValues ==
    {StrV(<<"x">>), StrV(<<"?">>), StrV(<<"$", "1">>), NilV, StructV}
ParamLists ==
    UNION {{[i \in 1..n |-> IntV(7)]}
               \cup {[i \in 1..n |-> IF i = at THEN v ELSE IntV(7)] :
                        at \in {1, n} \cap (1..n), v \in OddValues} :
           n \in 0..MaxParams}
Unnamed1(dargs) ==
    [i \in 1..Len(dargs) |-> [Name |-> <<>>, Ordinal |-> i, Value |-> dargs[i]]]
Results ==
    {Result(id, idErr, n, nErr) :
        id \in {0, 5}, idErr \in {Nil, ErrBackend},
        n \in {0, 1}, nErr \in {Nil, ErrBackend}}
Message(form, g, topic, query, dargs, res, derr) ==
    [form |-> form, g |-> g, topic |-> topic, query |-> query,
     dargs |-> IF form = "dargs" THEN dargs ELSE <<>>,
     nvdargs |-> IF form = "dargs" THEN <<>> ELSE Unnamed1(dargs),
     res |-> res, derr |-> derr]
\* A marker of more than one character, and the queries made of it.
LongMarker == <<":", "p">>
LongMarkerTexts ==
    {Concat(f) : f \in UNION {[1..n -> {<<"a">>, LongMarker}] : n \in 0..MaxSegs}}
Messages ==
    \* ConnQuery
    {Message("dargs", [Placeholder |-> m], "conn-query", q, d, NoRes, Nil) :
        m \in Markers, q \in QueryTexts, d \in ParamLists}
    \* ConnExec and ConnExecContext
    \cup {Message(form, [Placeholder |-> m], "conn-exec", q, d, r, e) :
            form \in {"dargs", "nvdargs"}, m \in Markers,
            q \in {<<>>, <<"a", "?">>},
            d \in {<<>>, <<IntV(7)>>, <<StructV>>},
            r \in Results \cup {NoRes}, e \in {Nil, ErrBackend}}
    \* StmtQuery, with the long marker
    \cup {Message("dargs", [Placeholder |-> LongMarker], "stmt-query", q,
                  [i \in 1..n |-> IntV(7)], NoRes, Nil) :
            q \in LongMarkerTexts, n \in 0..MaxArgs}

LoggingInit ==
    /\ drv = Wrapper("Driver", "gob", NoCtx, "", Backend("driver", {}, 0))
    /\ held = NoObj
    /\ op = NoOp
    /\ log = <<>>
    /\ calls = <<>>
    /\ NoSession
    /\ msg \in Messages
    /\ desc = NoDesc
    /\ NoPooling

Interpolation ==
    /\ desc = NoDesc
    /\ desc' = GobInterpolation(msg.g, msg.topic, msg.query, msg.dargs,
                                msg.nvdargs, msg.res, msg.derr)
    /\ UNCHANGED <<drv, held, op, log, calls, session, msg, pooling>>

LoggingNext == Interpolation

Logging == LoggingInit /\ [][LoggingNext]_vars

\* ------------------------------------------------------------------ pools
\* sync.Pool.Get: an object lying in the pool, which leaves it, or a new
\* one from New. A new object takes the least name that no pool and no
\* executing call refers to (`live` are the names referred to).
PoolGet(pool, live) ==
    {[obj |-> i, pool |-> [pool EXCEPT ![i] = @ - 1]] :
        i \in {j \in DOMAIN pool : pool[j] > 0}}
    \cup {[obj |-> i, pool |-> pool] :
        i \in {j \in DOMAIN pool \ live : \A k \in DOMAIN pool \ live : j <= k}}
\* sync.Pool.Put. A pool is followed up to MaxPooled copies of one object:
\* MaxPooled copies stand for that many or more.
MaxPooled == Cardinality(Goroutines) * MaxLogs * MaxReads
PoolPut(pool, i) == [pool EXCEPT ![i] = IF @ < MaxPooled THEN @ + 1 ELSE @]
\* One more Read call, one more write: MaxReads stands for that many or more.
Once(n) == IF n < MaxReads THEN n + 1 ELSE n

Buf(i) == <<"buf", i>>
Bin(i) == <<"bin", i>>
\* The buffers and the bins that a pool or an executing call refers to.
LiveBufs ==
    {b \in Bufs : bufPool[b] > 0}
    \cup {frame[p].buf : p \in {q \in Goroutines : gpc[q] \notin {"idle", "done"}}}
LiveBins ==
    {b \in Bins : binPool[b] > 0}
    \cup {frame[p].binary : p \in {q \in Goroutines : gpc[q] \in {"read", "write"}}}
\* A read or write of a pooled object by goroutine p: whether p holds it,
\* and whether what it carries is what p put there after resetting it.
Access(p, obj) ==
    [by |-> p, obj |-> obj, held |-> obj \in holds[p],
     own |-> obj[1] = "bin" => binData[obj[2]] = p]

PoolingInit ==
    /\ drv = Wrapper("Driver", "gob", NoCtx, "", Backend("driver", {}, 0))
    /\ held = NoObj
    /\ op = NoOp
    /\ log = <<>>
    /\ calls = <<>>
    /\ NoSession
    /\ NoGob

\* A step of a Logger call leaves the proxy alone.
ProxyIdle == UNCHANGED <<drv, held, op, log, calls, session, msg, desc>>

\* buf := bufPool.Get(); buf.Reset()
Begin(p) ==
    /\ gpc[p] = "idle"
    /\ \E g \in PoolGet(bufPool, LiveBufs) :
        /\ bufPool' = g.pool
        /\ frame' = [frame EXCEPT ![p].buf = g.obj]
        /\ holds' = [holds EXCEPT ![p] = @ \cup {Buf(g.obj)}]
    /\ gpc' = [gpc EXCEPT ![p] = "describe"]
    /\ UNCHANGED <<binPool, binData, access>>
    /\ ProxyIdle

\* buf.Write(...): the description is written to the buffer.
Describe(p) ==
    /\ gpc[p] = "describe"
    /\ access' = Access(p, Buf(frame[p].buf))
    /\ gpc' = [gpc EXCEPT ![p] = "newReader"]
    /\ UNCHANGED <<bufPool, binPool, frame, holds, binData>>
    /\ ProxyIdle

\* The deferred io.Copy starts: newReader takes a bin and overwrites its
\* Duration and its Description.
NewReader(p) ==
    /\ gpc[p] = "newReader"
    /\ \E g \in PoolGet(binPool, LiveBins) :
        /\ binPool' = g.pool
        /\ frame' = [frame EXCEPT ![p].binary = g.obj]
        /\ holds' = [holds EXCEPT ![p] = @ \cup {Bin(g.obj)}]
        /\ binData' = [binData EXCEPT ![g.obj] = p]
        /\ access' = [by |-> p, obj |-> Bin(g.obj), held |-> TRUE, own |-> TRUE]
    /\ gpc' = [gpc EXCEPT ![p] = "read"]
    /\ UNCHANGED bufPool
    /\ ProxyIdle

\* One reader.Read call of io.Copy. The receiver is a copy of the reader, so
\* r.buf is nil and r.done false in every call: a buffer is taken and reset,
\* *r.binary is encoded into it, r.binary is put into binPool, and the
\* buffer, which is not empty, answers the bytes without io.EOF, so that it
\* is not put back; the assignment to r.buf is lost with the copy.
Read(p) ==
    /\ gpc[p] = "read"
    /\ \E g \in PoolGet(bufPool, LiveBufs) : bufPool' = g.pool
    /\ access' = Access(p, Bin(frame[p].binary))
    /\ binPool' = PoolPut(binPool, frame[p].binary)
    /\ holds' = [holds EXCEPT ![p] = @ \ {Bin(frame[p].binary)}]
    /\ frame' = [frame EXCEPT ![p].reads = Once(@), ![p].kept = Once(@)]
    /\ gpc' = [gpc EXCEPT ![p] = "write"]
    /\ UNCHANGED binData
    /\ ProxyIdle

\* g.Writer.Write takes the bytes read in full and without error: io.Copy
\* calls Read again.
Accepted(p) ==
    /\ gpc' = [gpc EXCEPT ![p] = "read"]
    /\ frame' = [frame EXCEPT ![p].sent = Once(@)]
\* g.Writer.Write answers an error or another count than it was given (as
\* the sink of the tests does, which answers the length of its JSON line):
\* io.Copy returns.
Refused(p) ==
    /\ gpc' = [gpc EXCEPT ![p] = "return"]
    /\ UNCHANGED frame

\* g.Writer.Write of the bytes read, by a Writer of either kind.
Write(p) ==
    /\ gpc[p] = "write"
    /\ \/ /\ frame[p].reads < MaxReads
          /\ Accepted(p)
       \/ Refused(p)
    /\ UNCHANGED <<bufPool, binPool, holds, binData, access>>
    /\ ProxyIdle

\* The deferred bufPool.Put(buf), and the Logger call returns.
Return(p) ==
    /\ gpc[p] = "return"
    /\ bufPool' = PoolPut(bufPool, frame[p].buf)
    /\ holds' = [holds EXCEPT ![p] = @ \ {Buf(frame[p].buf)}]
    /\ gpc' = [gpc EXCEPT ![p] = "done"]
    /\ UNCHANGED <<binPool, frame, binData, access>>
    /\ ProxyIdle

\* The proxy's next operation on the goroutine makes its next Logger call.
Again(p) ==
    /\ gpc[p] = "done"
    /\ frame[p].logs < MaxLogs
    /\ gpc' = [gpc EXCEPT ![p] = "idle"]
    /\ frame' = [frame EXCEPT ![p] = [NoFrame EXCEPT !.logs = frame[p].logs + 1]]
    /\ holds' = [holds EXCEPT ![p] = {}]
    /\ UNCHANGED <<bufPool, binPool, binData, access>>
    /\ ProxyIdle

PoolingNext ==
    \/ \E p \in Goroutines : Begin(p)
    \/ \E p \in Goroutines : Describe(p)
    \/ \E p \in Goroutines : NewReader(p)
    \/ \E p \in Goroutines : Read(p)
    \/ \E p \in Goroutines : Write(p)
    \/ \E p \in Goroutines : Return(p)
    \/ \E p \in Goroutines : Again(p)

Pooling == PoolingInit /\ [][PoolingNext]_vars

\* ------------------------------------------------------------- formatting
\* The literal formatter as a function: a value is drawn, and ValueString is
\* applied to it and, when it is a pointer that holds a value, to the value
\* held as well (`msg` is the value, `desc` what ValueString answered).
MaxInt == 12
SupportedKinds == {"int", "float", "bool", "bytes", "string", "time"}
\* The table of TestValueString: a value and the text expected of it.
Expect(in, expected) == [in |-> in, expected |-> expected]
InstantTested == <<2020, 11, 21, 13, 56, 42>>
InstantExpected ==
    <<"'", "2", "0", "2", "0", "-", "1", "1", "-", "2", "1", "T",
      "1", "3", ":", "5", "6", ":", "4", "2", "Z", "'">>
ValueStringTestCases ==
    {Expect(IntV(1), <<"1">>), Expect(IntV(2), <<"2">>), Expect(IntV(3), <<"3">>),
     Expect(FloatV(4, 1), <<"4", ".", "1">>),
     Expect(FloatV(5, 2), <<"5", ".", "2">>),
     Expect(PtrV(IntV(6)), <<"6">>), Expect(NilP("int"), <<"N", "U", "L", "L">>),
     Expect(PtrV(IntV(7)), <<"7">>),
     Expect(PtrV(FloatV(8, 3)), <<"8", ".", "3">>),
     Expect(NilP("float"), <<"N", "U", "L", "L">>),
     Expect(PtrV(FloatV(9, 4)), <<"9", ".", "4">>),
     Expect(BoolV(TRUE), <<"T", "R", "U", "E">>),
     Expect(NilP("bool"), <<"N", "U", "L", "L">>),
     Expect(BytesV(<<102, 111, 111>>),
            <<"E", "'", "\\", "\\", "x", "6", "6", "6", "f", "6", "f", "'">>),
     Expect(NilP("bytes"), <<"N", "U", "L", "L">>),
     Expect(StrV(<<"f", "o", "o">>), <<"'", "f", "o", "o", "'">>),
     Expect(NilP("string"), <<"N", "U", "L", "L">>),
     Expect(TimeV(InstantTested), InstantExpected),
     Expect(PtrV(TimeV(InstantTested)), InstantExpected),
     Expect(NilP("time"), <<"N", "U", "L", "L">>)}

PlainValues ==
    {IntV(n) : n \in (0 - 2)..MaxInt}
    \cup {FloatV(4, 1), FloatV(5, 2), FloatV(8, 3), FloatV(9, 4), FloatV(5, 0)}
    \cup {BoolV(TRUE), BoolV(FALSE)}
    \cup {BytesV(<<>>), BytesV(<<102, 111, 111>>), BytesV(<<0>>), BytesV(<<255, 16>>)}
    \cup {StrV(<<>>), StrV(<<"f", "o", "o">>), StrV(<<"'">>), StrV(<<"N", "U", "L", "L">>)}
    \cup {TimeV(InstantTested), TimeV(<<2021, 1, 2, 3, 4, 5>>)}
    \cup {StructV}
FormatterValues ==
    PlainValues
    \cup {PtrV(v) : v \in PlainValues}
    \cup {NilP(k) : k \in SupportedKinds}

FormattingInit ==
    /\ drv = Wrapper("Driver", "gob", NoCtx, "", Backend("driver", {}, 0))
    /\ held = NoObj
    /\ op = NoOp
    /\ log = <<>>
    /\ calls = <<>>
    /\ NoSession
    /\ msg \in {[form |-> "value", in |-> v] : v \in FormatterValues}
    /\ desc = NoDesc
    /\ NoPooling

Format ==
    /\ desc = NoDesc
    /\ desc' = [topic |-> "value",
                out |-> ValueString(msg.in),
                held |-> IF msg.in.kind = "pointer"
                         THEN ValueString(msg.in.val)
                         ELSE Literally(<<>>)]
    /\ UNCHANGED <<drv, held, op, log, calls, session, msg, pooling>>

FormattingNext == Format

Formatting == FormattingInit /\ [][FormattingNext]_vars

\* ------------------------------------------------------------------ fleet
\* Several wrappers in use at once: two connections opened through one
\* Driver, with one Logger, on backends of different capability sets, and a
\* statement prepared on each, again of different capability sets. The
\* caller's calls go to any of them in any order; `sub` are the wrappers,
\* `trace` the calls made with the backend calls of each.
MaxCalls == 2
FleetDriver == Wrapper("Driver", "loggerA", NoCtx, "", Backend("driver", {}, 0))
FleetQuery == "INSERT|b=?"
FleetParams == <<NamedValue("", 1, 7)>>
Answered(b) == [val |-> b, err |-> Nil]
\* The connection that Open returns for the n-th backend connection, and
\* the statement that Prepare on it returns for the n-th backend statement.
Opening(caps, n) ==
    DriverOpen(FleetDriver, "db", Answered(Backend("conn", caps, n))).ret
Preparing(c, caps, n) ==
    ConnectionPrepare(c, FleetQuery, Answered(Backend("stmt", caps, n))).ret
Fleets ==
    {<<Opening(c1, 1), Opening(c2, 2),
       Preparing(Opening(c1, 1), s1, 1), Preparing(Opening(c2, 2), s2, 2)>> :
        c1 \in ConnCapSets, c2 \in ConnCapSets,
        s1 \in StmtCapSets, s2 \in StmtCapSets}
\* The answers of the backend to a call: the object asked for, or an error.
FleetAnswers(kind) ==
    {Answered(Backend(kind, {}, 1)), [val |-> NoB, err |-> ErrBackend]}

FleetInit ==
    /\ drv = FleetDriver
    /\ held = NoObj
    /\ op = NoOp
    /\ log = <<>>
    /\ calls = <<>>
    /\ script = "fleet"
    /\ pc = "fleet"
    /\ plan = NoPlan
    /\ sub \in {f \in Fleets : f[1].inner.caps # f[2].inner.caps
                                /\ f[3].inner.caps # f[4].inner.caps}
    /\ hist = <<>>
    /\ trace = <<>>
    /\ NoGob

\* One call on the wrapper `recv`, with what the method did.
Called(name, recv, out) ==
    LET o == Op(name, recv, "background", IF recv.kind = "connection"
                                          THEN FleetQuery ELSE "",
                FleetParams, <<>>, NoOpts, out)
    IN  /\ Len(trace) < MaxCalls
        /\ op' = o
        /\ log' = out.log
        /\ calls' = out.calls
        /\ hist' = Emit(hist, out.log)
        /\ trace' = Append(trace, [op |-> o, calls |-> out.calls])
        /\ UNCHANGED <<drv, held, script, pc, plan, sub, gob>>

FleetConnExecContext ==
    \E i \in 1..Len(sub), b \in FleetAnswers("result") :
        /\ sub[i].kind = "connection"
        /\ Called("conn.ExecContext", sub[i],
                  ConnectionExecContext(sub[i], "background", FleetQuery,
                                        FleetParams, b))

FleetConnQueryContext ==
    \E i \in 1..Len(sub), b \in FleetAnswers("rows") :
        /\ sub[i].kind = "connection"
        /\ Called("conn.QueryContext", sub[i],
                  ConnectionQueryContext(sub[i], "background", FleetQuery,
                                         FleetParams, b))

FleetStmtExecContext ==
    \E i \in 1..Len(sub), b \in FleetAnswers("result") :
        /\ sub[i].kind = "statement"
        /\ Called("stmt.ExecContext", sub[i],
                  StatementExecContext(sub[i], "background", FleetParams, b))

FleetStmtQueryContext ==
    \E i \in 1..Len(sub), b \in FleetAnswers("rows") :
        /\ sub[i].kind = "statement"
        /\ Called("stmt.QueryContext", sub[i],
                  StatementQueryContext(sub[i], "background", FleetParams, b))

FleetNext ==
    \/ FleetConnExecContext
    \/ FleetConnQueryContext
    \/ FleetStmtExecContext
    \/ FleetStmtQueryContext

Fleet == FleetInit /\ [][FleetNext]_vars

\* --------------------------------------------------------------- delivery
\* The Logger calls with a sink Writer that accepts every write in full and
\* without error. io.Copy returns when Read answers an error: reader.Read
\* answers io.EOF only when r.done is set, which the copy it is called on
\* never has, so that neither that return nor the one after it is a step
\* here.
Deliver(p) ==
    /\ gpc[p] = "write"
    /\ Accepted(p)
    /\ UNCHANGED <<bufPool, binPool, holds, binData, access>>
    /\ ProxyIdle

\* The steps of goroutine p.
Logs(p) ==
    \/ Begin(p)
    \/ Describe(p)
    \/ NewReader(p)
    \/ Read(p)
    \/ Deliver(p)

DeliveryNext ==
    \/ \E p \in Goroutines : Begin(p)
    \/ \E p \in Goroutines : Describe(p)
    \/ \E p \in Goroutines : NewReader(p)
    \/ \E p \in Goroutines : Read(p)
    \/ \E p \in Goroutines : Deliver(p)

\* Every goroutine that can run does run.
Delivery ==
    /\ PoolingInit
    /\ [][DeliveryNext]_vars
    /\ \A p \in Goroutines : WF_vars(Logs(p))

\* ============================================================== properties
\* The vocabulary of the properties: what the caller passed, read off the
\* completed operation `op`, never off the handler's own result.

\* The context the caller passed is already cancelled or past its deadline.
Cancelled(ctx) == ctx \in {"canceled", "deadline"}
\* No parameter of the call carries a name.
Unnamed(nvdargs) == \A i \in 1..Len(nvdargs) : nvdargs[i].Name = ""
\* The parameter values of the call, in the caller's order.
ValuesOf(nvdargs) == [i \in 1..Len(nvdargs) |-> nvdargs[i].Value]

\* The operation name under which a method's Logger call is reported.
OperationName(name) ==
    CASE name = "Driver.Open" -> "driver-open"
      [] name = "conn.Prepare" -> "conn-prepare"
      [] name = "conn.Close" -> "conn-close"
      [] name = "conn.Begin" -> "conn-begin"
      [] name = "conn.BeginTx" -> "conn-begin-tx"
      [] name = "conn.PrepareContext" -> "conn-prepare-context"
      [] name = "conn.Exec" -> "conn-exec"
      [] name = "conn.ExecContext" -> "conn-exec-context"
      [] name = "conn.Ping" -> "conn-ping"
      [] name = "conn.Query" -> "conn-query"
      [] name = "conn.QueryContext" -> "conn-query-context"
      [] name = "stmt.Close" -> "stmt-close"
      [] name = "stmt.Exec" -> "stmt-exec"
      [] name = "stmt.ExecContext" -> "stmt-exec-context"
      [] name = "stmt.Query" -> "stmt-query"
      [] name = "stmt.QueryContext" -> "stmt-query-context"
      [] name = "rows.Next" -> "rows-next"
      [] name = "tx.Commit" -> "tx-commit"
      [] name = "tx.Rollback" -> "tx-rollback"
      [] OTHER -> "none"

\* The backend method that has the signature of the proxy method.
BackendMethod(name) ==
    CASE name = "Driver.Open" -> "Driver.Open"
      [] name \in {"conn.Prepare"} -> "Prepare"
      [] name \in {"conn.Close", "stmt.Close"} -> "Close"
      [] name = "conn.Begin" -> "Begin"
      [] name = "conn.BeginTx" -> "BeginTx"
      [] name = "conn.PrepareContext" -> "PrepareContext"
      [] name \in {"conn.Exec", "stmt.Exec"} -> "Exec"
      [] name \in {"conn.ExecContext", "stmt.ExecContext"} -> "ExecContext"
      [] name = "conn.Ping" -> "Ping"
      [] name \in {"conn.Query", "stmt.Query"} -> "Query"
      [] name \in {"conn.QueryContext", "stmt.QueryContext"} -> "QueryContext"
      [] name = "conn.ResetSession" -> "ResetSession"
      [] name = "rows.Next" -> "Next"
      [] name = "tx.Commit" -> "Commit"
      [] name = "tx.Rollback" -> "Rollback"
      [] OTHER -> "none"

\* The optional backend interface a Context variant probes for.
ContextCap(name) ==
    CASE name = "conn.BeginTx" -> "ConnBeginTx"
      [] name = "conn.PrepareContext" -> "ConnPrepareContext"
      [] name = "conn.ExecContext" -> "ExecerContext"
      [] name = "conn.QueryContext" -> "QueryerContext"
      [] name = "stmt.ExecContext" -> "StmtExecContext"
      [] name = "stmt.QueryContext" -> "StmtQueryContext"
      [] OTHER -> "none"

\* The Context variants, and those of them that carry parameters.
ContextOps ==
    {"conn.BeginTx", "conn.PrepareContext", "conn.ExecContext",
     "conn.QueryContext", "stmt.ExecContext", "stmt.QueryContext"}
ParamOps ==
    {"conn.ExecContext", "conn.QueryContext", "stmt.ExecContext",
     "stmt.QueryContext"}

\* The completed operation is a Context variant on a backend that lacks the
\* context-aware capability.
Degrading == op.name \in ContextOps /\ ContextCap(op.name) \notin op.recv.inner.caps

\* The Logger calls of the completed operation made under `name`.
RecordsNamed(name) == {i \in 1..Len(log) : log[i].op = name}

\* -------------------------------------------------------------------- C1
\* C1: connection degrade. A proxy ExecContext on a backend connection that
\* implements Exec but not ExecContext, with unnamed parameters and a live
\* context, invokes the backend's Exec exactly once, with the same query and
\* the parameter values in the same order; when that Exec succeeds the call
\* returns no error and a result wrapper holding the backend's result; and
\* exactly one Logger call is made under conn-exec-context, carrying the
\* call's query and parameters.
C1_ConnExecContextDegrades ==
    ( /\ op.name = "conn.ExecContext"
      /\ "ExecerContext" \notin op.recv.inner.caps
      /\ "Execer" \in op.recv.inner.caps
      /\ Unnamed(op.nvdargs)
      /\ ~Cancelled(op.ctx) )
    => /\ Len(calls) = 1
       /\ calls[1].obj = op.recv.inner
       /\ calls[1].method = "Exec"
       /\ calls[1].query = op.query
       /\ calls[1].dargs = ValuesOf(op.nvdargs)
       /\ calls[1].err = Nil
            => /\ op.err = Nil
               /\ op.ret.kind = "result"
               /\ op.ret.inner = calls[1].val
       /\ Cardinality(RecordsNamed("conn-exec-context")) = 1
       /\ \A i \in RecordsNamed("conn-exec-context") :
            /\ log[i].query = op.query
            /\ log[i].nvdargs = op.nvdargs
            /\ log[i].Logger = op.recv.Logger

C1_Witness ==
    /\ op.name = "conn.ExecContext"
    /\ op.recv.inner.caps = PlainCaps
    /\ Len(op.nvdargs) = 2
    /\ Unnamed(op.nvdargs)
    /\ op.nvdargs[1].Value # op.nvdargs[2].Value
    /\ op.ctx = "background"
    /\ op.err = Nil
    /\ op.ret.kind = "result"
    /\ Len(calls) = 1

\* -------------------------------------------------------------------- C2
\* C2: cancelled context. A proxy ExecContext on a backend connection that
\* lacks ExecContext, whose cancellation check finds the context cancelled
\* or expired (the check is reached when the parameters are unnamed),
\* returns exactly the context's own error; and with a cancelled or expired
\* context no backend method is invoked for the call, named parameters or
\* not.
C2_CancelledExecContext ==
    ( /\ op.name = "conn.ExecContext"
      /\ "ExecerContext" \notin op.recv.inner.caps
      /\ Cancelled(op.ctx) )
    => /\ calls = <<>>
       /\ op.ret = NoObj
       /\ Unnamed(op.nvdargs) => op.err = CtxErr(op.ctx)

C2_Witness ==
    /\ op.name = "conn.ExecContext"
    /\ op.recv.inner.caps = PlainCaps
    /\ Unnamed(op.nvdargs)
    /\ Len(op.nvdargs) = 1
    /\ op.ctx = "deadline"
    /\ op.err = "context.DeadlineExceeded"
    /\ calls = <<>>

\* -------------------------------------------------------------------- C3
\* C3: a degraded ExecContext aborted by an already cancelled context makes
\* exactly one Logger call, and the error of that record is the context's
\* error that the caller got.
C3_CancelledExecContextLogged ==
    ( /\ op.name = "conn.ExecContext"
      /\ "ExecerContext" \notin op.recv.inner.caps
      /\ Unnamed(op.nvdargs)
      /\ Cancelled(op.ctx) )
    => /\ Len(log) = 1
       /\ log[1].op = "conn-exec-context"
       /\ log[1].err = op.err

\* -------------------------------------------------------------------- C4
\* C4: named-parameter degrade failure. A connection or statement
\* ExecContext / QueryContext on a backend that lacks the context-aware
\* capability, with at least one named parameter, fails with the
\* unsupported-named-parameter error, returns no object and invokes no
\* backend method.
C4_NamedParameterDegradeFails ==
    ( /\ op.name \in ParamOps
      /\ Degrading
      /\ ~Unnamed(op.nvdargs) )
    => /\ op.err = ErrNamedParameters
       /\ op.ret = NoObj
       /\ calls = <<>>

C4_Witness ==
    /\ op.name = "stmt.QueryContext"
    /\ Degrading
    /\ Len(op.nvdargs) = 2
    /\ op.nvdargs[1].Name = ""
    /\ op.nvdargs[2].Name # ""
    /\ op.ctx = "background"
    /\ op.err = ErrNamedParameters

\* -------------------------------------------------------------------- C5
\* C5: for every proxy operation that is logged, when the backend method it
\* invokes returns an error the proxy returns exactly that error, and when
\* the backend method succeeds the proxy returns no error (Nil stands for
\* no error on both sides).
C5_BackendErrorUnchanged ==
    ( /\ OperationName(op.name) # "none"
      /\ calls # <<>> )
    => /\ Len(calls) = 1
       /\ op.err = calls[1].err

C5_Witness ==
    /\ op.name = "conn.QueryContext"
    /\ Degrading
    /\ Len(calls) = 1
    /\ calls[1].method = "Query"
    /\ calls[1].err = ErrBackend
    /\ op.err = ErrBackend

\* -------------------------------------------------------------------- C6
\* C6: for every timed operation and every outcome, the error handed to the
\* Logger for the operation (the record under the operation's own name)
\* equals the error returned to the caller.
C6_LoggedErrorIsReturnedError ==
    \A i \in RecordsNamed(OperationName(op.name)) : log[i].err = op.err

DelegatingOps == ContextOps \ {"conn.BeginTx"}
PlainOperationName(name) ==
    CASE name = "conn.PrepareContext" -> "conn-prepare"
      [] name = "conn.ExecContext" -> "conn-exec"
      [] name = "conn.QueryContext" -> "conn-query"
      [] name = "stmt.ExecContext" -> "stmt-exec"
      [] name = "stmt.QueryContext" -> "stmt-query"
      [] OTHER -> "none"
Delegated ==
    /\ op.name \in DelegatingOps
    /\ Degrading
    /\ op.name \in ParamOps => Unnamed(op.nvdargs) /\ ~Cancelled(op.ctx)

FullyCapable(w) ==
    /\ w.kind = "connection" => w.inner.caps = ConnCaps
    /\ w.kind = "statement" =>
            w.inner.caps = {"StmtExecContext", "StmtQueryContext"}

\* C8: transparency. On a backend that implements every optional
\* capability each caller operation reaches the backend as exactly one
\* call: the method of the same name on the backend object the receiver
\* holds, with the caller's context, query text, parameters and transaction
\* options unaltered; and the caller gets the backend's own outcome, its
\* error unchanged and the object it returned inside the wrapper.  (One
\* call per operation, made before the operation returns, is also the
\* caller's order.)
C8_Transparency ==
    ( /\ ~Idle
      /\ FullyCapable(op.recv) )
    => /\ Len(calls) = 1
       /\ calls[1].obj = op.recv.inner
       /\ calls[1].method = BackendMethod(op.name)
       /\ calls[1].ctx = op.ctx
       /\ calls[1].query = op.query
       /\ calls[1].nvdargs = op.nvdargs
       /\ calls[1].dargs = op.dargs
       /\ calls[1].opts = op.opts
       /\ op.err = calls[1].err
       /\ op.ret.inner = calls[1].val

C8_Witness ==
    /\ op.name = "conn.ExecContext"
    /\ op.recv.inner.caps = ConnCaps
    /\ Len(op.nvdargs) = 2
    /\ ~Unnamed(op.nvdargs)
    /\ Cancelled(op.ctx)
    /\ Len(calls) = 1
    /\ calls[1].method = "ExecContext"
    /\ op.err = Nil
    /\ op.ret.kind = "result"

\* -------------------------------------------------------------------- C9
\* C9: BeginTx degrades and reports. On a backend connection without
\* BeginTx the proxy BeginTx calls the backend's plain Begin exactly once,
\* returns Begin's own outcome (a transaction wrapper holding the backend's
\* transaction whenever Begin succeeds, never an error of its own for the
\* missing capability), and makes its one Logger call under conn-begin-tx,
\* none under conn-begin.
C9_BeginTxDegrades ==
    ( /\ op.name = "conn.BeginTx"
      /\ "ConnBeginTx" \notin op.recv.inner.caps )
    => /\ Len(calls) = 1
       /\ calls[1].obj = op.recv.inner
       /\ calls[1].method = "Begin"
       /\ op.err = calls[1].err
       /\ calls[1].err = Nil
            => /\ op.ret.kind = "transaction"
               /\ op.ret.inner = calls[1].val
       /\ Len(log) = 1
       /\ log[1].op = "conn-begin-tx"
       /\ RecordsNamed("conn-begin") = {}

C9_Witness ==
    /\ op.name = "conn.BeginTx"
    /\ op.recv.inner.caps = PlainCaps
    /\ op.opts = "read-only"
    /\ op.err = Nil
    /\ op.ret.kind = "transaction"
    /\ Len(calls) = 1
    /\ calls[1].method = "Begin"

\* ------------------------------------------------------------------- C10
\* C10: the fallback is uniform over every Context variant. For each of
\* connection BeginTx, PrepareContext, ExecContext, QueryContext and
\* statement ExecContext, QueryContext, on a backend that lacks the
\* context-aware capability and with a context already cancelled (and, for
\* the variants that carry parameters, none of them named, so that the
\* cancellation check is reached), the proxy returns the context's error
\* and invokes no backend method.
C10_UniformCancellationCheck ==
    ( /\ Degrading
      /\ Cancelled(op.ctx)
      /\ Unnamed(op.nvdargs) )
    => /\ op.err = CtxErr(op.ctx)
       /\ calls = <<>>

\* ---------------------------------------------------------------------- C12
\* The kind of wrapper each object-returning operation builds.
ReturnedKind(name) ==
    CASE name = "Driver.Open" -> "connection"
      [] name \in {"conn.Prepare", "conn.PrepareContext"} -> "statement"
      [] name \in {"conn.Begin", "conn.BeginTx"} -> "transaction"
      [] name \in {"conn.Exec", "conn.ExecContext", "stmt.Exec",
                   "stmt.ExecContext"} -> "result"
      [] name \in {"conn.Query", "conn.QueryContext", "stmt.Query",
                   "stmt.QueryContext"} -> "rowsIterator"
      [] OTHER -> "nil"
ReturningOps ==
    {"Driver.Open", "conn.Prepare", "conn.PrepareContext", "conn.Begin",
     "conn.BeginTx", "conn.Exec", "conn.ExecContext", "stmt.Exec",
     "stmt.ExecContext", "conn.Query", "conn.QueryContext", "stmt.Query",
     "stmt.QueryContext"}
SubOps == {"stmt.Close", "rows.Next", "tx.Commit", "tx.Rollback"}

\* C12: an object-returning operation that succeeds returns a wrapper of
\* the operation's kind that holds the backend object answered by that very
\* call and the Logger of the wrapper it was called on; one that fails
\* returns no object; and every sub-operation on a returned wrapper is
\* logged to the Logger of the Driver everything descends from.
C12_WrappersHoldCallResult ==
    /\ op.name \in ReturningOps =>
         IF op.err = Nil
         THEN /\ op.ret.kind = ReturnedKind(op.name)
              /\ Len(calls) > 0
              /\ calls[Len(calls)].err = Nil
              /\ op.ret.inner = calls[Len(calls)].val
              /\ op.ret.Logger = op.recv.Logger
         ELSE op.ret = NoObj
    /\ op.name \in SubOps =>
         /\ Len(log) = 1
         /\ log[1].Logger = op.recv.Logger
         /\ log[1].Logger = drv.Logger
    /\ held # NoObj => held.Logger = drv.Logger

\* A row iterator obtained from a statement is advanced, and the record
\* goes to the second of the two Loggers.
C12_Witness ==
    /\ op.name = "rows.Next"
    /\ op.recv.kind = "rowsIterator"
    /\ op.err = Nil
    /\ Len(log) = 1
    /\ drv.Logger = "loggerB"
    /\ op.recv.ctx = NoCtx


\* ---------------------------------------------------------------------- C11
\* The record is one the operation `o` of a session made: it carries o's
\* operation name (or the plain one a degrading Context variant also logs)
\* and, for Next, o's error and the row o read.
RecordOf(rec, o) ==
    /\ rec.op \in {OperationName(o.name), PlainOperationName(o.name)}
    /\ o.name = "rows.Next" =>
         /\ rec.err = o.err
         /\ rec.dargs = IF o.err = Nil THEN <<o.recv.inner.n>> ELSE o.dargs
RecordsOf(o) == {i \in 1..Len(hist) : RecordOf(hist[i], o)}

\* C11: of two operations completed one after the other on the same wrapped
\* object (connection, statement, row iterator or transaction), each has
\* reached the Logger, and every record of the one that completed first was
\* received before every record of the one that completed later.
C11_PerObjectLogOrder ==
    \A j, k \in 1..Len(trace) :
        j < k /\ trace[j].recv.kind = trace[k].recv.kind =>
            /\ RecordsOf(trace[j]) # {}
            /\ RecordsOf(trace[k]) # {}
            /\ \A i \in RecordsOf(trace[j]), i2 \in RecordsOf(trace[k]) :
                   i < i2

\* A result set of two rows has been read to its end through a statement:
\* three operations on the connection, two on the statement and three on
\* the row iterator have completed.
C11_Witness ==
    /\ script = "query"
    /\ pc = "done"
    /\ Cardinality({k \in 1..Len(trace) : trace[k].name = "rows.Next"}) = 3
    /\ Cardinality({k \in 1..Len(trace) : trace[k].recv.kind = "statement"}) = 2
    /\ Cardinality({k \in 1..Len(trace) : trace[k].recv.kind = "connection"}) = 3


\* ---------------------------------------------------------------------- C13
\* The operations of the session that are Next calls, and the rows-next
\* records the Logger has received, by position.
NextCalls == {k \in 1..Len(trace) : trace[k].name = "rows.Next"}
RowsNextRecords == {i \in 1..Len(hist) : hist[i].op = "rows-next"}
\* The operation that returned the row iterator, and the rows it had.
Opened == CHOOSE k \in 1..Len(trace) : trace[k].ret.kind = "rowsIterator"
Exhausted ==
    /\ trace # <<>>
    /\ trace[Len(trace)].name = "rows.Next"
    /\ trace[Len(trace)].err = EOF
\* The k-th smallest member of a set of positions.
Nth(S, k) == CHOOSE i \in S : Cardinality({x \in S : x < i}) = k - 1

\* C13: a Next call is forwarded to the backend once, with the caller's
\* buffer, and logged once as rows-next with the buffer as the backend left
\* it and the error Next returned, which is the backend's; and once a
\* result set of n rows has been read to the end of the data, n+1 Next
\* calls have completed and the Logger has received exactly n+1 rows-next
\* records, the first n without error and the last with the end-of-data
\* error, which that Next call returned.
C13_RowsNextLogged ==
    /\ op.name = "rows.Next" =>
         /\ Len(calls) = 1
         /\ calls[1].method = "Next"
         /\ calls[1].obj = op.recv.inner
         /\ calls[1].dargs = op.dargs
         /\ op.err = calls[1].err
         /\ Len(log) = 1
         /\ log[1].op = "rows-next"
         /\ log[1].err = op.err
         /\ log[1].dargs = IF op.err = Nil THEN <<op.recv.inner.n>>
                           ELSE op.dargs
    /\ Exhausted =>
         LET n == trace[Opened].ret.inner.n
         IN  /\ NextCalls = (Opened + 1)..(Opened + n + 1)
             /\ Cardinality(RowsNextRecords) = n + 1
             /\ \A k \in 1..n : hist[Nth(RowsNextRecords, k)].err = Nil
             /\ hist[Nth(RowsNextRecords, n + 1)].err = EOF
             /\ \A k \in 1..n : trace[Opened + k].err = Nil
             /\ op.err = EOF

\* A result set of two rows has been read to its end: the third Next call
\* returned the end-of-data error, and the buffer still holds the last row.
C13_Witness ==
    /\ Exhausted
    /\ trace[Opened].ret.inner.n = 2
    /\ Cardinality(RowsNextRecords) = 3
    /\ op.dargs = <<1>>


\* ---------------------------------------------------------------------- C14
WipeCalls ==
    <<"Driver.Open", "conn.ExecContext", "conn.PrepareContext",
      "stmt.ExecContext", "stmt.Close", "conn.Close">>
\* The session has run its six calls, and the backend connection's own
\* ExecContext answered driver.ErrSkip.
WipeCompleted ==
    /\ script = "wipe"
    /\ pc = "done"
    /\ [k \in 1..Len(trace) |-> trace[k].name] = WipeCalls
    /\ "ExecerContext" \in trace[2].recv.inner.caps
    /\ trace[2].err = ErrSkip
RecordNames == [i \in 1..Len(hist) |-> hist[i].op]

Logged == desc # NoDesc
\* The bound parameters of the call and their values, in the caller's order.
Bound == IF msg.form = "dargs" THEN msg.dargs ELSE msg.nvdargs
BoundValue(k) ==
    IF msg.form = "dargs" THEN msg.dargs[k] ELSE msg.nvdargs[k].Value
HasLiteral(v) == v.kind \in {"int", "string", "nil"}
\* The literal of the k-th parameter, as the literal formatter is specified.
Literal(k) ==
    LET v == BoundValue(k)
    IN  CASE v.kind = "int" -> Itoa(v.val)
          [] v.kind = "string" -> <<"'">> \o v.val \o <<"'">>
          [] OTHER -> <<"N", "U", "L", "L">>
OrdinalStyle == msg.g.Placeholder = <<>>
Ordinal(k) == <<"$">> \o Itoa(k)
\* The ordinals whose placeholder stands in the text at position i.
OrdinalsAt(text, i) ==
    {k \in 1..Len(Bound) : HasPrefixAt(text, Ordinal(k), i)}
Largest(S) == CHOOSE k \in S : \A j \in S : j <= k
PlaceholderLeft(text) == \E i \in 1..Len(text) : OrdinalsAt(text, i) # {}
\* The text with every ordinal placeholder, read from the left and as long
\* as it can be read, replaced by the literal of its parameter.
RECURSIVE OrdinalsFilled(_, _)
OrdinalsFilled(text, i) ==
    IF i > Len(text) THEN <<>>
    ELSE IF OrdinalsAt(text, i) # {}
    THEN LET k == Largest(OrdinalsAt(text, i))
         IN  Literal(k) \o OrdinalsFilled(text, i + Len(Ordinal(k)))
    ELSE <<text[i]>> \o OrdinalsFilled(text, i + 1)
\* The text with the k-th marker from the left, and each one after it,
\* replaced by the literals of the k-th and the following parameters.
RECURSIVE MarkersFilled(_, _, _, _)
MarkersFilled(text, marker, i, k) ==
    IF i > Len(text) THEN <<>>
    ELSE IF HasPrefixAt(text, marker, i)
    THEN Literal(k) \o MarkersFilled(text, marker, i + Len(marker), k + 1)
    ELSE <<text[i]>> \o MarkersFilled(text, marker, i + 1, k)
Contains(text, substr) == Occurrences(text, substr) # {}

\* A call with ordinal placeholders and parameters up to a two-digit
\* ordinal, for which an interpolated text was written.
C15_Case ==
    /\ Logged
    /\ OrdinalStyle
    /\ Len(Bound) >= 10
    /\ desc.interpolation # <<>>

\* C15 as stated: the interpolated text is the query with each ordinal
\* placeholder, $10 read before $1, replaced by its parameter's literal,
\* and contains no placeholder.
C15_OrdinalsReplaced ==
    C15_Case =>
        /\ desc.interpolation = OrdinalsFilled(msg.query, 1)
        /\ ~PlaceholderLeft(desc.interpolation)

\* C15 as amended: the same, for parameters whose literals contain no
\* placeholder text themselves.
C15_OrdinalsReplacedCleanLiterals ==
    C15_Case /\ (\A k \in 1..Len(Bound) : ~Contains(Literal(k), <<"$">>)) =>
        /\ desc.interpolation = OrdinalsFilled(msg.query, 1)
        /\ ~PlaceholderLeft(desc.interpolation)

\* $1 a $10 with ten parameters, the tenth a string: "7a'x'".
C15_Witness ==
    /\ C15_Case
    /\ msg.query = <<"$", "1", "a", "$", "1", "0">>
    /\ Len(msg.dargs) = 10
    /\ msg.dargs[10] = StrV(<<"x">>)
    /\ desc.interpolation = <<"7", "a", "'", "x", "'">>

\* Every bound parameter has a placeholder of its own in the query.
EveryParameterPlaced ==
    IF OrdinalStyle
    THEN \A k \in 1..Len(Bound) : Contains(msg.query, Ordinal(k))
    ELSE Len(Bound) <= Cardinality(Occurrences(msg.query, msg.g.Placeholder))

\* C16: the description shows either an interpolated query in which every
\* bound parameter has been substituted for a placeholder, or the raw query
\* with the raw argument list.
C16_AllOrNothing ==
    Logged =>
        \/ /\ desc.interpolation # <<>>
           /\ EveryParameterPlaced
        \/ /\ desc.interpolation = <<>>
           /\ desc.query = msg.query
           /\ desc.args = Bound

\* C17: when a bound parameter has no literal, the description shows the
\* query as passed and the argument list as passed and no interpolated
\* text, and the operation's error is written as passed.
C17_FormatFailureFallsBack ==
    Logged /\ (\E k \in 1..Len(Bound) : ~HasLiteral(BoundValue(k))) =>
        /\ desc.interpolation = <<>>
        /\ desc.query = msg.query
        /\ desc.args = Bound
        /\ desc.error = msg.derr

\* The first of two parameters has no literal: the second one had been
\* substituted for the second marker when the scan failed.
C17_Witness ==
    /\ Logged
    /\ msg.g.Placeholder = <<"?">>
    /\ msg.query = <<"?", "a", "?">>
    /\ Len(msg.dargs) = 2
    /\ ~HasLiteral(msg.dargs[1])
    /\ desc.scanError # Nil
    /\ desc.interpolation = <<>>
    /\ desc.args = msg.dargs

\* C18: with the marker "?", as many markers in the query as bound
\* parameters, at least one, and no marker in any literal, the interpolated
\* text is the query with the k-th marker from the left replaced by the
\* literal of the k-th parameter.
C18_MarkersReplacedInOrder ==
    /\ Logged
    /\ msg.g.Placeholder = <<"?">>
    /\ Len(Bound) >= 1
    /\ Cardinality(Occurrences(msg.query, <<"?">>)) = Len(Bound)
    /\ \A k \in 1..Len(Bound) :
           HasLiteral(BoundValue(k)) /\ ~Contains(Literal(k), <<"?">>)
    => desc.interpolation = MarkersFilled(msg.query, <<"?">>, 1, 1)

\* ?a? with 7 and "x": 7a'x'.
C18_Witness ==
    /\ Logged
    /\ msg.g.Placeholder = <<"?">>
    /\ msg.query = <<"?", "a", "?">>
    /\ msg.dargs = <<IntV(7), StrV(<<"x">>)>>
    /\ desc.interpolation = <<"7", "a", "'", "x", "'">>

\* C19: last-insert-id is written exactly when a Result was passed whose
\* LastInsertId answers no error and a value other than zero, and
\* rows-affected exactly when the same holds of RowsAffected, whatever the
\* other one answers.
C19_ResultMetadata ==
    Logged =>
        /\ desc.lastInsertId # <<>> <=>
               msg.res.kind # "nil" /\ msg.res.idErr = Nil /\ msg.res.id # 0
        /\ desc.lastInsertId # <<>> => desc.lastInsertId = <<msg.res.id>>
        /\ desc.rowsAffected # <<>> <=>
               msg.res.kind # "nil" /\ msg.res.nErr = Nil /\ msg.res.n # 0
        /\ desc.rowsAffected # <<>> => desc.rowsAffected = <<msg.res.n>>

\* One row affected and no id: rows-affected alone is written.
C19_Witness ==
    /\ Logged
    /\ msg.res.kind = "result"
    /\ msg.res.id = 0
    /\ msg.res.n = 1
    /\ msg.res.nErr = Nil
    /\ desc.rowsAffected = <<1>>
    /\ desc.lastInsertId = <<>>

\* C20: scratch-buffer discipline under concurrency. In every interleaving
\* of concurrently executing Logger calls, a pooled buffer or record is
\* reset before it is used, is held by at most one executing call and is
\* not read or written by a call that has put it back, and every buffer a
\* call took is back in its pool when the call has completed.
ResetBeforeUse == access.own
HeldByOneCall ==
    \A p, q \in Goroutines : p # q => holds[p] \cap holds[q] = {}
NotUsedAfterPut == access.held
ReturnedAtCompletion ==
    \A p \in Goroutines :
        gpc[p] = "done" => holds[p] = {} /\ frame[p].kept = 0
C20_PoolDiscipline ==
    /\ ResetBeforeUse
    /\ HeldByOneCall
    /\ NotUsedAfterPut
    /\ ReturnedAtCompletion

\* C21: logging never blocks the caller. With a Writer that accepts every
\* write in full and without error, each Logger call that has begun returns,
\* the record having been written to the Writer exactly once.
LoggerCallReturned(p) == gpc[p] = "done" /\ frame[p].sent = 1
C21_LoggerCallReturns ==
    \A p \in Goroutines : (gpc[p] = "describe") ~> LoggerCallReturned(p)
\* The record is never written a second time.
DeliveredOnce == \A p \in Goroutines : frame[p].sent <= 1

\* C22: where no degrade path exists, a missing capability is the driver's
\* not-supported signal and nothing else. Connection Exec on a backend
\* without Exec, connection Query on a backend without Query and
\* ResetSession on a backend without session reset return driver.ErrSkip
\* and invoke no backend method; on a backend that has the capability the
\* backend's method is invoked once and what it answered is what the caller
\* gets: its error unchanged, and on success a wrapper holding its value.
Capability(name) ==
    CASE name = "conn.Exec" -> "Execer"
      [] name = "conn.Query" -> "Queryer"
      [] name = "conn.ResetSession" -> "SessionResetter"
      [] OTHER -> "none"
NoDegradeOps == {"conn.Exec", "conn.Query", "conn.ResetSession"}
C22_NotSupportedSignal ==
    op.name \in NoDegradeOps =>
        IF Capability(op.name) \notin op.recv.inner.caps
        THEN /\ op.err = ErrSkip
             /\ op.ret = NoObj
             /\ calls = <<>>
        ELSE /\ Len(calls) = 1
             /\ calls[1].obj = op.recv.inner
             /\ calls[1].method = BackendMethod(op.name)
             /\ op.err = calls[1].err
             /\ (op.err = Nil /\ op.name # "conn.ResetSession")
                    => op.ret.inner = calls[1].val

C22_Witness ==
    /\ op.name = "conn.ResetSession"
    /\ "SessionResetter" \notin op.recv.inner.caps
    /\ op.err = ErrSkip
    /\ calls = <<>>

\* C23: literal formatting of optional values. For every supported kind
\* (integer, float, boolean, byte sequence, string, timestamp) ValueString
\* of a nil pointer to that kind is the text NULL, and ValueString of a
\* pointer that holds a value is what ValueString is of the value held;
\* neither returns an error.
Formatted == desc # NoDesc /\ desc.topic = "value"
NullText == <<"N", "U", "L", "L">>
C23_OptionalValues ==
    Formatted =>
        /\ (msg.in.kind = "nil" /\ msg.in.val \in SupportedKinds)
                => desc.out.text = NullText /\ desc.out.err = Nil
        /\ (msg.in.kind = "pointer" /\ msg.in.val.kind \in SupportedKinds)
                => /\ desc.out.err = Nil
                   /\ desc.held.err = Nil
                   /\ desc.out.text = desc.held.text
                   /\ desc.out.text # <<>>
        /\ \A t \in ValueStringTestCases :
                (msg.in = t.in /\ msg.in.kind \in {"nil", "pointer"})
                    => desc.out.text = t.expected /\ desc.out.err = Nil

C23_Witness ==
    /\ Formatted
    /\ msg.in = PtrV(TimeV(InstantTested))
    /\ desc.out.err = Nil
    /\ desc.out.text = InstantExpected

\* ValueString answers what its test table expects of every value in it.
AsTested ==
    Formatted =>
        \A t \in ValueStringTestCases :
            msg.in = t.in => desc.out.text = t.expected /\ desc.out.err = Nil

\* C24: order of the degrade steps. On a degrade path of a call with
\* parameters the named-to-positional conversion comes before the
\* cancellation check, and the cancellation check before the plain backend
\* call: a call with a named parameter fails with the named-parameter error
\* also when its context is already cancelled, a call with unnamed
\* parameters and a cancelled context fails with the context's error, the
\* backend is invoked in neither case, and it is invoked once, by its plain
\* method, in the remaining case.
ContextError(ctx) ==
    CASE ctx = "canceled" -> "context.Canceled"
      [] ctx = "deadline" -> "context.DeadlineExceeded"
      [] OTHER -> Nil
PlainMethod(name) ==
    IF name \in {"conn.ExecContext", "stmt.ExecContext"} THEN "Exec" ELSE "Query"
\* The optional backend interface of a connection's plain method.
PlainCapability(name) == IF name = "conn.ExecContext" THEN "Execer" ELSE "Queryer"
C24_DegradeStepOrder ==
    (op.name \in ParamOps /\ Degrading) =>
        /\ ~Unnamed(op.nvdargs)
                => op.err = ErrNamedParameters /\ calls = <<>>
        /\ (Unnamed(op.nvdargs) /\ Cancelled(op.ctx))
                => op.err = ContextError(op.ctx) /\ calls = <<>>
        /\ (Unnamed(op.nvdargs) /\ ~Cancelled(op.ctx)
                /\ (op.name \in {"conn.ExecContext", "conn.QueryContext"}
                        => PlainCapability(op.name) \in op.recv.inner.caps))
                => Len(calls) = 1 /\ calls[1].method = PlainMethod(op.name)

C24_Witness ==
    /\ op.name = "conn.QueryContext"
    /\ Degrading
    /\ Len(op.nvdargs) = 1
    /\ op.nvdargs[1].Name # ""
    /\ Cancelled(op.ctx)
    /\ op.err = ErrNamedParameters
    /\ calls = <<>>

\* C25: capability detection is per backend instance and per call. With
\* several connections and statements of different capability sets wrapped
\* through one Driver and Logger, each proxy call takes the direct path (it
\* invokes the context-aware method of the backend object it holds) if and
\* only if that backend object implements the capability, whatever the other
\* wrappers' backends implement and whatever calls were made before.
Direct(e) ==
    /\ e.calls # <<>>
    /\ e.calls[1].obj = e.op.recv.inner
    /\ e.calls[1].method = BackendMethod(e.op.name)
C25_ProbePerInstance ==
    \A k \in 1..Len(trace) :
        (script = "fleet" /\ trace[k].op.name \in ParamOps)
            => (Direct(trace[k])
                    <=> ContextCap(trace[k].op.name) \in trace[k].op.recv.inner.caps)

\* A statement with the capability is called directly, and then one without
\* it, of the same Driver and Logger, degrades.
C25_Witness ==
    /\ script = "fleet"
    /\ Len(trace) = 2
    /\ trace[1].op.name = "stmt.ExecContext"
    /\ trace[2].op.name = "stmt.ExecContext"
    /\ trace[1].op.recv # trace[2].op.recv
    /\ trace[1].op.recv.Logger = trace[2].op.recv.Logger
    /\ Direct(trace[1])
    /\ ~Direct(trace[2])
    /\ trace[2].calls # <<>>
    /\ trace[2].calls[1].method = "Exec"

\* C26: Ping on a backend connection that does not implement ping returns
\* success, invokes no backend method and still makes exactly one Logger
\* call, ConnPing, with a nil error; on a backend that implements ping the
\* backend is pinged once and its error is both returned and passed to the
\* one ConnPing call.
PingRecords == {i \in 1..Len(log) : log[i].op = "conn-ping"}
C26_PingWithoutCapability ==
    op.name = "conn.Ping" =>
        /\ Len(log) = 1
        /\ PingRecords = {1}
        /\ log[1].Logger = op.recv.Logger
        /\ log[1].err = op.err
        /\ IF "Pinger" \in op.recv.inner.caps
           THEN /\ Len(calls) = 1
                /\ calls[1].obj = op.recv.inner
                /\ calls[1].method = "Ping"
                /\ op.err = calls[1].err
           ELSE /\ calls = <<>>
                /\ op.err = Nil

C26_Witness ==
    /\ op.name = "conn.Ping"
    /\ "Pinger" \notin op.recv.inner.caps
    /\ op.err = Nil
    /\ calls = <<>>
    /\ Len(log) = 1
    /\ log[1].op = "conn-ping"
    /\ log[1].err = Nil

\* C27: a statement proxy carries the query text it was prepared with. For
\* a statement returned by Prepare or PrepareContext, on a backend with or
\* without the prepare-with-context capability, every Logger call of a
\* later statement Exec, ExecContext, Query or QueryContext on it is given
\* the query text that was given to the prepare call.
StatementOps == {"stmt.Exec", "stmt.ExecContext", "stmt.Query", "stmt.QueryContext"}
PrepareOps == {"conn.Prepare", "conn.PrepareContext"}
\* The calls of the session that returned the statement now called.
PreparedBy ==
    {k \in 1..Len(trace) :
        /\ trace[k].name \in PrepareOps
        /\ trace[k].err = Nil
        /\ trace[k].ret = op.recv}
C27_StatementCarriesQuery ==
    (script \in Scripts /\ op.name \in StatementOps) =>
        \A k \in PreparedBy : \A i \in 1..Len(log) :
            log[i].query = trace[k].query

\* C28: with an explicit marker of any length L >= 1 as the placeholder,
\* each substitution removes the whole marker and puts the literal in its
\* place: for a query with as many markers as bound parameters, at least
\* one, the interpolated text is the query with the k-th marker replaced by
\* the literal of the k-th parameter, and nothing of a marker is left.
Marker == msg.g.Placeholder
C28_WholeMarkerReplaced ==
    ( /\ Logged
      /\ Len(Marker) >= 1
      /\ Len(Bound) >= 1
      /\ Cardinality(Occurrences(msg.query, Marker)) = Len(Bound)
      /\ \A k \in 1..Len(Bound) :
            /\ HasLiteral(BoundValue(k))
            /\ \A i \in 1..Len(Marker) : ~Contains(Literal(k), <<Marker[i]>>) )
    => /\ desc.interpolation = MarkersFilled(msg.query, Marker, 1, 1)
       /\ \A i \in 1..Len(Marker) :
            Cardinality(Occurrences(desc.interpolation, <<Marker[i]>>))
                = Cardinality(Occurrences(msg.query, <<Marker[i]>>))
                    - Len(Bound)

\* C29 as claimed: on a degrade path that delegates to the proxy's own plain
\* variant one caller operation yields exactly two Logger records, the
\* record of the plain operation before the record of the context
\* operation, and the backend's plain method is invoked exactly once, before
\* both records.
PlainBackendMethod(name) ==
    CASE name = "conn.PrepareContext" -> "Prepare"
      [] name \in {"conn.ExecContext", "stmt.ExecContext"} -> "Exec"
      [] OTHER -> "Query"
TwoRecordsInOrder ==
    /\ Len(log) = 2
    /\ log[1].op = PlainOperationName(op.name)
    /\ log[2].op = OperationName(op.name)
PlainMethodOnceBefore ==
    /\ Len(calls) = 1
    /\ calls[1].obj = op.recv.inner
    /\ calls[1].method = PlainBackendMethod(op.name)
    /\ \A i \in 1..Len(log) : log[i].after = 1
C29_DelegatedRecords ==
    Delegated => TwoRecordsInOrder /\ PlainMethodOnceBefore

\* C29 as amended: the two records are made in that order on every
\* delegating degrade path; the backend's plain method is invoked exactly
\* once, before both records, where the backend has it, which a statement
\* and Prepare always do; a backend connection without Exec (Query) is not
\* invoked at all, and the operation returns driver.ErrSkip.
HasPlainMethod ==
    /\ op.name = "conn.ExecContext" => "Execer" \in op.recv.inner.caps
    /\ op.name = "conn.QueryContext" => "Queryer" \in op.recv.inner.caps
C29_DelegatedRecordsWherePlain ==
    Delegated =>
        /\ TwoRecordsInOrder
        /\ IF HasPlainMethod
           THEN PlainMethodOnceBefore
           ELSE calls = <<>> /\ op.err = ErrSkip

C29_Witness ==
    /\ op.name = "conn.PrepareContext"
    /\ Delegated
    /\ Len(log) = 2
    /\ log[1].op = "conn-prepare"
    /\ log[2].op = "conn-prepare-context"
    /\ log[1].after = 1
    /\ Len(calls) = 1
    /\ calls[1].method = "Prepare"

\* C30: for every successful Exec-family operation (connection Exec and
\* ExecContext, statement Exec and ExecContext) the result passed to the
\* Logger in the record named for the operation the caller invoked is the
\* result the backend returned for that call, on the direct path and when
\* ExecContext degrades to Exec.
ExecOps == {"conn.Exec", "conn.ExecContext", "stmt.Exec", "stmt.ExecContext"}
C30_ResultReachesLogger ==
    (op.name \in ExecOps /\ op.err = Nil) =>
        /\ Len(calls) = 1
        /\ RecordsNamed(OperationName(op.name)) # {}
        /\ \A i \in RecordsNamed(OperationName(op.name)) :
                log[i].res = calls[1].val

====
